---- MODULE Spec2Model ----
(***************************************************************************)
(* Model of the relationship-entailment pipeline of z3_poc                 *)
(* (src/z3_poc/core/relationships.py): one analyze_relationships request,  *)
(* from the declaration of the symbols to the verdict, against a           *)
(* satisfiability backend with an assertion stack (assert, push, pop,      *)
(* check).                                                                 *)
(*                                                                         *)
(* Text (names, query strings) is a sequence of one-character strings, so  *)
(* that split and strip work on characters as str.split and str.strip do.  *)
(***************************************************************************)
EXTENDS Integers, Sequences, FiniteSets, TLC

(***************************************************************************)
(* Bounds of the explored requests.                                        *)
(***************************************************************************)
MaxFacts == 2

(***************************************************************************)
(* Names used in the explored requests.                                    *)
(***************************************************************************)
sibling == <<"s", "i", "b", "l", "i", "n", "g">>
parent == <<"p", "a", "r", "e", "n", "t">>
cousin == <<"c", "o", "u", "s", "i", "n">>
alice == <<"a">>
bob == <<"b">>
carol == <<"c">>
\* an entity name that holds the argument separator, as in "Smith, J"
smith == <<"s", ",", "j">>

(***************************************************************************)
(* str.strip, str.split and the membership test of a character.            *)
(***************************************************************************)
Whitespace == {" "}

RECURSIVE LStrip(_)
LStrip(s) ==
    IF s # <<>> /\ Head(s) \in Whitespace THEN LStrip(Tail(s)) ELSE s

RECURSIVE RStrip(_)
RStrip(s) ==
    IF s # <<>> /\ s[Len(s)] \in Whitespace
    THEN RStrip(SubSeq(s, 1, Len(s) - 1))
    ELSE s

Strip(s) == RStrip(LStrip(s))

Contains(s, c) == \E i \in 1..Len(s) : s[i] = c

\* s.split(c): the pieces of s between the occurrences of c, in order
RECURSIVE Split(_, _)
Split(s, c) ==
    IF ~Contains(s, c)
    THEN <<s>>
    ELSE LET i == CHOOSE k \in 1..Len(s) :
                      s[k] = c /\ \A j \in 1..(k - 1) : s[j] # c
         IN  <<SubSeq(s, 1, i - 1)>> \o Split(SubSeq(s, i + 1, Len(s)), c)

StripAll(parts) == [i \in 1..Len(parts) |-> Strip(parts[i])]

(***************************************************************************)
(* Results (returns.result) and the RelationshipResult payload.            *)
(***************************************************************************)
Success(v) == [kind |-> "Success", value |-> v]
Failure(msg, arg) == [kind |-> "Failure", error |-> <<msg, arg>>]
Pending == [kind |-> "Pending"]

RelationshipResult(r, e, s) ==
    [result |-> r, explanation |-> e, is_satisfiable |-> s]

(***************************************************************************)
(* Backend formulas: relation(e1, e2), its negation, and the quantified    *)
(* symmetry axiom of one relation.                                         *)
(***************************************************************************)
Atom(rel, e1, e2) == [op |-> "app", rel |-> rel, e1 |-> e1, e2 |-> e2]
Not(f) == [op |-> "not", rel |-> f.rel, e1 |-> f.e1, e2 |-> f.e2]
ForAllSymmetric(rel) == [op |-> "forall_sym", rel |-> rel, e1 |-> <<"x">>, e2 |-> <<"y">>]
NoExpr == [op |-> "none"]

(***************************************************************************)
(* The symbol tables: create_entity / create_relation bind a name to a     *)
(* backend symbol of that name.                                            *)
(***************************************************************************)
None == "None"

create_entity(name) == Success([name |-> name, z3_const |-> name])

\* EntityNamesOf that collects the first endpoint of each fact only
EntityNamesOf_FirstEndpoint(rels) == {rels[i].person1 : i \in 1..Len(rels)}

EntityNamesOf(rels) ==
    {rels[i].person1 : i \in 1..Len(rels)} \cup {rels[i].person2 : i \in 1..Len(rels)}

create_entities(rels) ==
    Success([name \in EntityNamesOf(rels) |-> create_entity(name).value])

create_relation(name) == Success([name |-> name, z3_func |-> name])

RelationNamesOf(rels) == {rels[i].relation : i \in 1..Len(rels)}

create_relations(rels) ==
    Success([name \in RelationNamesOf(rels) |-> create_relation(name).value])

(***************************************************************************)
(* add_relationship_assertions: the formulas it hands to solver.add, in    *)
(* order, or the Failure it returns.                                       *)
(***************************************************************************)
\* FactFormula that drops `value': every fact is asserted as stated true
FactFormula_IgnoresValue(rel, ents, rls) ==
    Atom(rls[rel.relation].z3_func, ents[rel.person1].z3_const, ents[rel.person2].z3_const)

\* FactFormula with the two entities in the wrong order
FactFormula_Swapped(rel, ents, rls) ==
    IF rel.value
    THEN Atom(rls[rel.relation].z3_func, ents[rel.person2].z3_const, ents[rel.person1].z3_const)
    ELSE Not(Atom(rls[rel.relation].z3_func, ents[rel.person2].z3_const, ents[rel.person1].z3_const))

FactFormula(rel, ents, rls) ==
    IF rel.value
    THEN Atom(rls[rel.relation].z3_func, ents[rel.person1].z3_const, ents[rel.person2].z3_const)
    ELSE Not(Atom(rls[rel.relation].z3_func, ents[rel.person1].z3_const, ents[rel.person2].z3_const))

\* FactFormulas that asserts the facts stated true only
FactFormulas_TrueOnly(rels, ents, rls) ==
    LET stated == SelectSeq(rels, LAMBDA rel : rel.value)
    IN  [i \in 1..Len(stated) |-> FactFormula(stated[i], ents, rls)]

\* FactFormulas that asserts the first fact only
FactFormulas_FirstOnly(rels, ents, rls) ==
    [i \in 1..(IF Len(rels) = 0 THEN 0 ELSE 1) |-> FactFormula(rels[i], ents, rls)]

FactFormulas(rels, ents, rls) ==
    [i \in 1..Len(rels) |-> FactFormula(rels[i], ents, rls)]

\* SymmetryAxioms that never asserts the axiom
SymmetryAxioms_Missing(rls) == <<>>

\* SymmetryAxioms that asserts the axiom for parent as well
SymmetryAxioms_EveryRelation(rls) ==
    (IF sibling \in DOMAIN rls THEN <<ForAllSymmetric(rls[sibling].z3_func)>> ELSE <<>>)
    \o (IF parent \in DOMAIN rls THEN <<ForAllSymmetric(rls[parent].z3_func)>> ELSE <<>>)

SymmetryAxioms(rls) ==
    IF sibling \in DOMAIN rls
    THEN <<ForAllSymmetric(rls[sibling].z3_func)>>
    ELSE <<>>

FactDefect(rel, ents, rls) ==
    IF rel.relation \notin DOMAIN rls \/ rel.person1 \notin DOMAIN ents
         \/ rel.person2 \notin DOMAIN ents
    THEN Failure("Error adding relationship assertions", rel.relation)
    ELSE IF rls[rel.relation].z3_func = None
    THEN Failure("Relation has no Z3 function", rel.relation)
    ELSE IF ents[rel.person1].z3_const = None
    THEN Failure("Entity has no Z3 constant", rel.person1)
    ELSE IF ents[rel.person2].z3_const = None
    THEN Failure("Entity has no Z3 constant", rel.person2)
    ELSE Success(None)

add_relationship_assertions(rels, ents, rls) ==
    IF \E i \in 1..Len(rels) : FactDefect(rels[i], ents, rls).kind = "Failure"
    THEN LET i == CHOOSE k \in 1..Len(rels) :
                      /\ FactDefect(rels[k], ents, rls).kind = "Failure"
                      /\ \A j \in 1..(k - 1) : FactDefect(rels[j], ents, rls).kind = "Success"
         IN  [added |-> FactFormulas(SubSeq(rels, 1, i - 1), ents, rls),
              result |-> FactDefect(rels[i], ents, rls)]
    ELSE IF sibling \in DOMAIN rls /\ rls[sibling].z3_func = None
    THEN [added |-> FactFormulas(rels, ents, rls),
          result |-> Failure("Sibling relation has no Z3 function", sibling)]
    ELSE [added |-> FactFormulas(rels, ents, rls) \o SymmetryAxioms(rls),
          result |-> Success(None)]

(***************************************************************************)
(* parse_query: the formula of a query string, or the Failure naming the   *)
(* defect.                                                                 *)
(***************************************************************************)
\* parse_query that takes the names of the query as they come, declared or not
parse_query_Undeclared(q, ents, rls) ==
    LET parts == Split(q, "(")
    IN  IF Len(parts) # 2 \/ ~Contains(parts[2], ")")
        THEN Failure("Invalid query format", q)
        ELSE
        LET relation_name == Strip(parts[1])
            entities_part == Strip(Split(parts[2], ")")[1])
            entity_names == StripAll(Split(entities_part, ","))
        IN  IF Len(entity_names) # 2
            THEN Failure("Query must involve exactly two entities", q)
            ELSE Success(Atom(relation_name, entity_names[1], entity_names[2]))

parse_query(q, ents, rls) ==
    LET parts == Split(q, "(")
    IN  IF Len(parts) # 2 \/ ~Contains(parts[2], ")")
        THEN Failure("Invalid query format", q)
        ELSE
        LET relation_name == Strip(parts[1])
            entities_part == Strip(Split(parts[2], ")")[1])
            entity_names == StripAll(Split(entities_part, ","))
        IN  IF Len(entity_names) # 2
            THEN Failure("Query must involve exactly two entities", q)
            ELSE IF relation_name \notin DOMAIN rls
            THEN Failure("Unknown relation", relation_name)
            ELSE IF entity_names[1] \notin DOMAIN ents
            THEN Failure("Unknown entity", entity_names[1])
            ELSE IF entity_names[2] \notin DOMAIN ents
            THEN Failure("Unknown entity", entity_names[2])
            ELSE IF rls[relation_name].z3_func = None
            THEN Failure("Relation has no Z3 function", relation_name)
            ELSE IF ents[entity_names[1]].z3_const = None
            THEN Failure("Entity has no Z3 constant", entity_names[1])
            ELSE IF ents[entity_names[2]].z3_const = None
            THEN Failure("Entity has no Z3 constant", entity_names[2])
            ELSE Success(Atom(rls[relation_name].z3_func,
                              ents[entity_names[1]].z3_const,
                              ents[entity_names[2]].z3_const))

(***************************************************************************)
(* The backend's decision: a set of formulas is satisfiable iff some       *)
(* interpretation makes them all true.  An interpretation gives every      *)
(* constant a value of the (string) sort and every relation a set of       *)
(* pairs of values; constants are not assumed distinct.  The formulas are  *)
(* ground literals and universal axioms, so a domain with one value per    *)
(* constant is enough (a model restricted to the values of the constants   *)
(* is still a model), and relations are interpreted independently.         *)
(***************************************************************************)
ConstantsOf(fs) ==
    UNION {{f.e1, f.e2} : f \in {g \in fs : g.op \in {"app", "not"}}}

FunctionsOf(fs) == {f.rel : f \in fs}

Holds(f, val, I) ==
    CASE f.op = "app" -> <<val[f.e1], val[f.e2]>> \in I
      [] f.op = "not" -> <<val[f.e1], val[f.e2]>> \notin I
      [] f.op = "forall_sym" -> \A p \in I : <<p[2], p[1]>> \in I

\* Satisfiable over a single individual: all names denote the same entity
Satisfiable_OneEntity(fs) ==
    LET consts == ConstantsOf(fs)
        Dom == {1}
    IN  \E val \in [consts -> Dom] :
            \A r \in FunctionsOf(fs) :
                \E I \in SUBSET (Dom \X Dom) :
                    \A f \in {g \in fs : g.rel = r} : Holds(f, val, I)

Satisfiable(fs) ==
    LET consts == ConstantsOf(fs)
        Dom == 1..Cardinality(consts)
    IN  \E val \in [consts -> Dom] :
            \A r \in FunctionsOf(fs) :
                \E I \in SUBSET (Dom \X Dom) :
                    \A f \in {g \in fs : g.rel = r} : Holds(f, val, I)

Range(s) == {s[i] : i \in 1..Len(s)}

SolverCheck(asserted) == IF Satisfiable(Range(asserted)) THEN "sat" ELSE "unsat"

(***************************************************************************)
(* The requests explored: fact lists of at most MaxFacts facts and query   *)
(* strings, well formed and not.                                           *)
(***************************************************************************)
Relationship(p1, p2, r, v) ==
    [person1 |-> p1, person2 |-> p2, relation |-> r, value |-> v]

Persons == {alice, bob}

ParentPairs == {<<alice, bob>>, <<bob, alice>>}

Facts ==
    {Relationship(p1, p2, sibling, v) : p1 \in Persons, p2 \in Persons, v \in BOOLEAN}
    \cup {Relationship(p[1], p[2], parent, v) : p \in ParentPairs, v \in BOOLEAN}
    \cup {Relationship(smith, bob, sibling, TRUE)}

FactLists == UNION {[1..n -> Facts] : n \in 0..MaxFacts}

\* the text "rel(e1, e2)"
QueryText(rel, e1, e2) == rel \o <<"(">> \o e1 \o <<",", " ">> \o e2 \o <<")">>

Queries ==
    {QueryText(r, p1, p2) : r \in {sibling, parent}, p1 \in Persons, p2 \in Persons}
    \cup {QueryText(sibling, smith, bob), QueryText(sibling, bob, smith),
          QueryText(cousin, alice, bob), QueryText(sibling, carol, bob),
          QueryText(sibling, alice, carol)}
    \cup {sibling,
          sibling \o <<"(", "(">> \o alice \o <<",">> \o bob \o <<")">>,
          sibling \o <<"(">> \o alice \o <<",">> \o bob,
          sibling \o <<"(">> \o alice \o <<")">>,
          sibling \o <<"(">> \o alice \o <<",">> \o bob \o <<",">> \o alice \o <<")">>,
          sibling \o <<"(">> \o alice \o <<",">> \o bob \o <<")">> \o carol,
          <<" ">> \o sibling \o <<" ", "(", " ">> \o alice \o <<" ", ",">> \o bob \o <<" ", ")">>}

(***************************************************************************)
(* State of one analyze_relationships call.                                *)
(***************************************************************************)
VARIABLES
    relationships,  \* query.relationships
    query,          \* query.query
    pc,             \* the statement the call is at
    entities,       \* name -> Entity
    relations,      \* name -> Relation
    assertions,     \* the solver's asserted formulas, oldest first
    scopes,         \* the solver's open scopes: the number of assertions at each push
    query_expr,     \* the parsed query formula
    base_result,    \* the answer of the check of the fact base
    neg_result,     \* evaluate_query's neg_result
    pos_result,     \* evaluate_query's pos_result
    outcome,        \* the Result the call returns
    calls           \* the calls made to the solver, in order

(***************************************************************************)
(* State of one solve_problem call.                                        *)
(***************************************************************************)
VARIABLES
    problem,         \* the Problem the call is given
    sp,              \* the statement the call is at
    variables,       \* name -> Z3 variable (solve_problem's variables)
    z3_constraints,  \* the compiled constraints, in list order
    solve_result,    \* what solve returned: the check's answer and the model
    solution,        \* the Result the call returns
    sp_calls         \* the stages run and the solver calls made, in order

solveVars == <<problem, sp, variables, z3_constraints, solve_result, solution,
               sp_calls>>

(***************************************************************************)
(* State of one call of a simplified tool of the server.                   *)
(***************************************************************************)
VARIABLES
    request,      \* the tool called and its loosely typed arguments
    tp,           \* the statement the tool is at
    response,     \* the text the tool returns
    invocations   \* the calls made to solve_problem / analyze_relationships

toolVars == <<request, tp, response, invocations>>

vars == <<relationships, query, pc, entities, relations, assertions, scopes,
          query_expr, base_result, neg_result, pos_result, outcome, calls,
          solveVars, toolVars>>

NoAnswer == "none"

EmptyTable == [name \in {} |-> None]

Problem(vs, cs) == [variables |-> vs, constraints |-> cs]

SolveIdle ==
    /\ problem = Problem(<<>>, <<>>)
    /\ sp = "idle"
    /\ variables = EmptyTable
    /\ z3_constraints = <<>>
    /\ solve_result = NoAnswer
    /\ solution = Pending
    /\ sp_calls = <<>>

NoRequest == [tool |-> "none"]

ToolIdle ==
    /\ request = NoRequest
    /\ tp = "idle"
    /\ response = Pending
    /\ invocations = <<>>

Init ==
    /\ SolveIdle
    /\ ToolIdle
    /\ relationships \in FactLists
    /\ query \in Queries
    /\ pc = "start"
    /\ entities = EmptyTable
    /\ relations = EmptyTable
    /\ assertions = <<>>
    /\ scopes = <<>>
    /\ query_expr = NoExpr
    /\ base_result = NoAnswer
    /\ neg_result = NoAnswer
    /\ pos_result = NoAnswer
    /\ outcome = Pending
    /\ calls = <<>>

Return(r) ==
    /\ outcome' = r
    /\ pc' = "done"

(***************************************************************************)
(* analyze_relationships up to the parsed query.                           *)
(***************************************************************************)
CreateEntities ==
    /\ pc = "start"
    /\ entities' = create_entities(relationships).value
    /\ pc' = "create_relations"
    /\ UNCHANGED <<toolVars, solveVars, relationships, query, relations, assertions, scopes, query_expr,
                   base_result, neg_result, pos_result, outcome, calls>>

CreateRelations ==
    /\ pc = "create_relations"
    /\ relations' = create_relations(relationships).value
    /\ pc' = "add_assertions"
    /\ UNCHANGED <<toolVars, solveVars, relationships, query, entities, assertions, scopes, query_expr,
                   base_result, neg_result, pos_result, outcome, calls>>

AddRelationshipAssertions ==
    /\ pc = "add_assertions"
    /\ LET r == add_relationship_assertions(relationships, entities, relations)
       IN  /\ assertions' = assertions \o r.added
           /\ calls' = calls \o [i \in 1..Len(r.added) |-> "add"]
           /\ IF r.result.kind = "Failure"
              THEN Return(r.result)
              ELSE pc' = "parse_query" /\ UNCHANGED outcome
    /\ UNCHANGED <<toolVars, solveVars, relationships, query, entities, relations, scopes, query_expr,
                   base_result, neg_result, pos_result>>

\* ParseQuery that checks the fact base first and reports a contradiction
\* whatever the query is
ParseQuery_ChecksFirst ==
    /\ pc = "parse_query"
    /\ LET r == parse_query(query, entities, relations)
       IN  IF SolverCheck(assertions) = "unsat"
           THEN /\ Return(Success(RelationshipResult(FALSE,
                            "The relationships are contradictory.", FALSE)))
                /\ calls' = Append(calls, "check")
                /\ UNCHANGED query_expr
           ELSE /\ IF r.kind = "Failure"
                   THEN Return(r) /\ UNCHANGED query_expr
                   ELSE query_expr' = r.value /\ pc' = "base_check" /\ UNCHANGED outcome
                /\ UNCHANGED calls
    /\ UNCHANGED <<toolVars, solveVars, relationships, query, entities, relations, assertions, scopes,
                   base_result, neg_result, pos_result>>

ParseQuery ==
    /\ pc = "parse_query"
    /\ LET r == parse_query(query, entities, relations)
       IN  IF r.kind = "Failure"
           THEN Return(r) /\ UNCHANGED query_expr
           ELSE query_expr' = r.value /\ pc' = "base_check" /\ UNCHANGED outcome
    /\ UNCHANGED <<toolVars, solveVars, relationships, query, entities, relations, assertions, scopes,
                   base_result, neg_result, pos_result, calls>>

(***************************************************************************)
(* The verdicts.                                                           *)
(***************************************************************************)
\* the verdict of a contradictory fact base, reported satisfiable
ContradictoryVerdict_Satisfiable ==
    RelationshipResult(FALSE, "The relationships are contradictory.", TRUE)

ContradictoryVerdict ==
    RelationshipResult(FALSE, "The relationships are contradictory.", FALSE)

\* the verdict `confirmed' with result false
ConfirmedVerdict_False ==
    RelationshipResult(FALSE, "The relationship is confirmed by the given facts.", TRUE)

ConfirmedVerdict ==
    RelationshipResult(TRUE, "The relationship is confirmed by the given facts.", TRUE)

ContradictedVerdict ==
    RelationshipResult(FALSE, "The relationship is contradicted by the given facts.", TRUE)

PossibleVerdict ==
    RelationshipResult(FALSE,
        "The relationship is possible but not confirmed by the given facts.", TRUE)

(***************************************************************************)
(* The check of the fact base: `if solver.check() == unsat: return ...`.   *)
(* ans is the backend's answer.                                            *)
(***************************************************************************)
BaseCheck(ans) ==
    /\ pc = "base_check"
    /\ base_result' = ans
    /\ calls' = Append(calls, "check")
    /\ IF ans = "unsat"
       THEN Return(Success(ContradictoryVerdict))
       ELSE pc' = "neg_push" /\ UNCHANGED outcome
    /\ UNCHANGED <<toolVars, solveVars, relationships, query, entities, relations, assertions, scopes,
                   query_expr, neg_result, pos_result>>

(***************************************************************************)
(* The solver's scope operations.                                          *)
(***************************************************************************)
SolverPush ==
    /\ scopes' = Append(scopes, Len(assertions))
    /\ calls' = Append(calls, "push")
    /\ UNCHANGED assertions

SolverAdd(f) ==
    /\ assertions' = Append(assertions, f)
    /\ calls' = Append(calls, "add")
    /\ UNCHANGED scopes

\* a pop that closes the scope and keeps what was asserted in it
SolverPop_KeepsAssertions ==
    /\ assertions' = assertions
    /\ scopes' = SubSeq(scopes, 1, Len(scopes) - 1)
    /\ calls' = Append(calls, "pop")

SolverPop ==
    /\ assertions' = SubSeq(assertions, 1, scopes[Len(scopes)])
    /\ scopes' = SubSeq(scopes, 1, Len(scopes) - 1)
    /\ calls' = Append(calls, "pop")

(***************************************************************************)
(* evaluate_query, statement by statement.                                 *)
(***************************************************************************)
\* NegPush taken in place of the check of the fact base
NegPush_SkipsBaseCheck ==
    /\ pc = "base_check"
    /\ SolverPush
    /\ pc' = "neg_add"
    /\ UNCHANGED <<toolVars, solveVars, relationships, query, entities, relations, query_expr,
                   base_result, neg_result, pos_result, outcome>>

NegPush ==
    /\ pc = "neg_push"
    /\ SolverPush
    /\ pc' = "neg_add"
    /\ UNCHANGED <<toolVars, solveVars, relationships, query, entities, relations, query_expr,
                   base_result, neg_result, pos_result, outcome>>

NegAdd ==
    /\ pc = "neg_add"
    /\ SolverAdd(Not(query_expr))
    /\ pc' = "neg_check"
    /\ UNCHANGED <<toolVars, solveVars, relationships, query, entities, relations, query_expr,
                   base_result, neg_result, pos_result, outcome>>

NegCheck(ans) ==
    /\ pc = "neg_check"
    /\ neg_result' = ans
    /\ calls' = Append(calls, "check")
    /\ pc' = "neg_pop"
    /\ UNCHANGED <<toolVars, solveVars, relationships, query, entities, relations, assertions, scopes,
                   query_expr, base_result, pos_result, outcome>>

\* NegPop without the pop: the scope of the negated query stays open
NegPop_Forgotten ==
    /\ pc = "neg_pop"
    /\ pc' = "neg_decide"
    /\ UNCHANGED <<toolVars, solveVars, relationships, query, entities, relations, assertions, scopes,
                   query_expr, base_result, neg_result, pos_result, outcome, calls>>

NegPop ==
    /\ pc = "neg_pop"
    /\ SolverPop
    /\ pc' = "neg_decide"
    /\ UNCHANGED <<toolVars, solveVars, relationships, query, entities, relations, query_expr,
                   base_result, neg_result, pos_result, outcome>>

ReturnConfirmed ==
    /\ pc = "neg_decide"
    /\ neg_result = "unsat"
    /\ Return(Success(ConfirmedVerdict))
    /\ UNCHANGED <<toolVars, solveVars, relationships, query, entities, relations, assertions, scopes,
                   query_expr, base_result, neg_result, pos_result, calls>>

\* PosPush whatever the probe of the negation answered
PosPush_Unguarded ==
    /\ pc = "neg_decide"
    /\ SolverPush
    /\ pc' = "pos_add"
    /\ UNCHANGED <<toolVars, solveVars, relationships, query, entities, relations, query_expr,
                   base_result, neg_result, pos_result, outcome>>

PosPush ==
    /\ pc = "neg_decide"
    /\ neg_result # "unsat"
    /\ SolverPush
    /\ pc' = "pos_add"
    /\ UNCHANGED <<toolVars, solveVars, relationships, query, entities, relations, query_expr,
                   base_result, neg_result, pos_result, outcome>>

\* PosAdd asserting the negated query again
PosAdd_Negated ==
    /\ pc = "pos_add"
    /\ SolverAdd(Not(query_expr))
    /\ pc' = "pos_check"
    /\ UNCHANGED <<toolVars, solveVars, relationships, query, entities, relations, query_expr,
                   base_result, neg_result, pos_result, outcome>>

PosAdd ==
    /\ pc = "pos_add"
    /\ SolverAdd(query_expr)
    /\ pc' = "pos_check"
    /\ UNCHANGED <<toolVars, solveVars, relationships, query, entities, relations, query_expr,
                   base_result, neg_result, pos_result, outcome>>

PosCheck(ans) ==
    /\ pc = "pos_check"
    /\ pos_result' = ans
    /\ calls' = Append(calls, "check")
    /\ pc' = "pos_pop"
    /\ UNCHANGED <<toolVars, solveVars, relationships, query, entities, relations, assertions, scopes,
                   query_expr, base_result, neg_result, outcome>>

PosPop ==
    /\ pc = "pos_pop"
    /\ SolverPop
    /\ pc' = "pos_decide"
    /\ UNCHANGED <<toolVars, solveVars, relationships, query, entities, relations, query_expr,
                   base_result, neg_result, pos_result, outcome>>

ReturnContradicted ==
    /\ pc = "pos_decide"
    /\ pos_result = "unsat"
    /\ Return(Success(ContradictedVerdict))
    /\ UNCHANGED <<toolVars, solveVars, relationships, query, entities, relations, assertions, scopes,
                   query_expr, base_result, neg_result, pos_result, calls>>

ReturnPossible ==
    /\ pc = "pos_decide"
    /\ pos_result # "unsat"
    /\ Return(Success(PossibleVerdict))
    /\ UNCHANGED <<toolVars, solveVars, relationships, query, entities, relations, assertions, scopes,
                   query_expr, base_result, neg_result, pos_result, calls>>

(***************************************************************************)
(* The backend gives up (unknown) or raises.  An exception inside          *)
(* evaluate_query reaches its `except` clause, one raised by the check of  *)
(* the fact base reaches that of analyze_relationships; both return a      *)
(* Failure from where the exception was raised.                            *)
(***************************************************************************)
BaseCheckRaises ==
    /\ pc = "base_check"
    /\ calls' = Append(calls, "check")
    /\ Return(Failure("Error analyzing relationships", <<>>))
    /\ UNCHANGED <<toolVars, solveVars, relationships, query, entities, relations, assertions, scopes,
                   query_expr, base_result, neg_result, pos_result>>

ProbeRaises ==
    /\ pc \in {"neg_add", "neg_check", "pos_add", "pos_check"}
    /\ calls' = Append(calls, IF pc \in {"neg_add", "pos_add"} THEN "add" ELSE "check")
    /\ Return(Failure("Error evaluating query", <<>>))
    /\ UNCHANGED <<toolVars, solveVars, relationships, query, entities, relations, assertions, scopes,
                   query_expr, base_result, neg_result, pos_result>>

(***************************************************************************)
(* Spec: the backend decides every check.  SpecFaulty: it may also answer  *)
(* unknown or raise.                                                       *)
(***************************************************************************)
Next ==
    \/ CreateEntities
    \/ CreateRelations
    \/ AddRelationshipAssertions
    \/ ParseQuery
    \/ BaseCheck(SolverCheck(assertions))
    \/ NegPush
    \/ NegAdd
    \/ NegCheck(SolverCheck(assertions))
    \/ NegPop
    \/ ReturnConfirmed
    \/ PosPush
    \/ PosAdd
    \/ PosCheck(SolverCheck(assertions))
    \/ PosPop
    \/ ReturnContradicted
    \/ ReturnPossible

Spec == Init /\ [][Next]_vars

NextFaulty ==
    \/ Next
    \/ BaseCheck("unknown")
    \/ NegCheck("unknown")
    \/ PosCheck("unknown")
    \/ BaseCheckRaises
    \/ ProbeRaises

SpecFaulty == Init /\ [][NextFaulty]_vars

(***************************************************************************)
(* Vocabulary of the properties.                                           *)
(***************************************************************************)
Done == pc = "done"

Succeeded == outcome.kind = "Success"

Failed == outcome.kind = "Failure"

\* the fact base F: what a successful add_relationship_assertions asserts
FactBase ==
    add_relationship_assertions(relationships,
        create_entities(relationships).value,
        create_relations(relationships).value).added

Count(log, c) == Cardinality({i \in 1..Len(log) : log[i] = c})

\* some atom is stated true and also stated false, directly or, for
\* sibling, on the swapped pair
HasContradiction(rels) ==
    \E i, j \in 1..Len(rels) :
        /\ rels[i].value
        /\ ~rels[j].value
        /\ rels[i].relation = rels[j].relation
        /\ \/ rels[i].person1 = rels[j].person1 /\ rels[i].person2 = rels[j].person2
           \/ /\ rels[i].relation = sibling
              /\ rels[i].person1 = rels[j].person2
              /\ rels[i].person2 = rels[j].person1

\* a name the query syntax can express
PlainName(n) ==
    /\ \A i \in 1..Len(n) : n[i] \notin {"(", ")", ","}
    /\ Strip(n) = n

(***************************************************************************)
(* C1: when the check of the fact base answers unsat, the call has         *)
(* returned, in that very step, the success verdict `contradictory'        *)
(* (result false, is_satisfiable false); no scope was pushed and no other  *)
(* check was made.                                                         *)
(***************************************************************************)
C1_ContradictoryReturnsAtOnce ==
    base_result = "unsat" =>
        /\ Done
        /\ outcome = Success(RelationshipResult(FALSE,
                         "The relationships are contradictory.", FALSE))
        /\ Count(calls, "push") = 0
        /\ Count(calls, "check") = 1
        /\ calls[Len(calls)] = "check"
        /\ scopes = <<>>
        /\ neg_result = NoAnswer
        /\ pos_result = NoAnswer

C1_Witness == Done /\ base_result = "unsat" /\ query_expr # NoExpr

(***************************************************************************)
(* C2: the probe of the negated query checks F and Not(Q) in one scope;    *)
(* when it answers unsat (the base check did not), the call returns        *)
(* exactly the verdict `confirmed' (result true, is_satisfiable true), and *)
(* a verdict with result = true is returned in no other case.              *)
(***************************************************************************)
C2_ConfirmedIffNegProbeUnsat ==
    /\ pc = "neg_pop" =>
           /\ assertions = FactBase \o <<Not(query_expr)>>
           /\ Len(scopes) = 1
    /\ Done =>
           /\ (neg_result = "unsat") <=> (Succeeded /\ outcome.value.result)
           /\ neg_result = "unsat" =>
                  /\ base_result # "unsat"
                  /\ outcome = Success(RelationshipResult(TRUE,
                         "The relationship is confirmed by the given facts.", TRUE))

C2_Witness == Done /\ base_result = "sat" /\ neg_result = "unsat"

(***************************************************************************)
(* C3: the probe of the query checks F and Q in one scope; when it answers *)
(* unsat (the probe of the negation did not), the call returns exactly the *)
(* verdict `contradicted' (result false, is_satisfiable true).             *)
(***************************************************************************)
C3_ContradictedWhenPosProbeUnsat ==
    /\ pc = "pos_pop" =>
           /\ assertions = FactBase \o <<query_expr>>
           /\ Len(scopes) = 1
    /\ Done /\ pos_result = "unsat" =>
           /\ neg_result \notin {"unsat", NoAnswer}
           /\ outcome = Success(RelationshipResult(FALSE,
                  "The relationship is contradicted by the given facts.", TRUE))

C3_Witness == Done /\ neg_result = "sat" /\ pos_result = "unsat"

(***************************************************************************)
(* C4: for a query that parses, the verdict `possible but not confirmed'   *)
(* (result false, is_satisfiable true) is returned iff neither probe       *)
(* answered unsat, which is iff both F with Not(Q) and F with Q are        *)
(* satisfiable: Q is independent of F.                                     *)
(***************************************************************************)
C4_PossibleIffIndependent ==
    Done /\ query_expr # NoExpr =>
        LET possible == outcome = Success(RelationshipResult(FALSE,
                "The relationship is possible but not confirmed by the given facts.",
                TRUE))
        IN  /\ possible <=> (/\ neg_result \notin {"unsat", NoAnswer}
                             /\ pos_result \notin {"unsat", NoAnswer})
            /\ possible <=> (/\ Satisfiable(Range(FactBase) \cup {Not(query_expr)})
                             /\ Satisfiable(Range(FactBase) \cup {query_expr}))

C4_Witness ==
    /\ Done
    /\ Succeeded
    /\ outcome.value.explanation =
           "The relationship is possible but not confirmed by the given facts."

(***************************************************************************)
(* C5: a call that ends in a Failure has restored the base scope: no scope *)
(* is left open and the assertions are those of the fact base.             *)
(***************************************************************************)
C5_ScopeRestoredOnFailure ==
    Done /\ Failed => scopes = <<>> /\ Count(calls, "push") = Count(calls, "pop")

(***************************************************************************)
(* C6: a call in which the backend answered unknown to a check ends in a   *)
(* Failure.                                                                *)
(***************************************************************************)
C6_UnknownSurfaced ==
    Done /\ "unknown" \in {base_result, neg_result, pos_result} => Failed

(***************************************************************************)
(* C7: when the facts state some atom true and also false (directly or,    *)
(* for sibling, on the swapped pair), a query that parses gets the verdict *)
(* `contradictory' (result false, is_satisfiable false), and no query gets *)
(* the verdict `confirmed'.                                                *)
(***************************************************************************)
C7_ContradictionDetected ==
    Done /\ HasContradiction(relationships) =>
        /\ query_expr # NoExpr =>
               /\ Succeeded
               /\ outcome.value.result = FALSE
               /\ outcome.value.is_satisfiable = FALSE
        /\ Succeeded =>
               outcome.value.explanation # "The relationship is confirmed by the given facts."

C7_Witness ==
    /\ Done
    /\ Succeeded
    /\ \E i, j \in 1..Len(relationships) :
           /\ relationships[i] = Relationship(alice, bob, sibling, TRUE)
           /\ relationships[j] = Relationship(bob, alice, sibling, FALSE)

(***************************************************************************)
(* C8: with the single fact sibling(X, Y) = true, X # Y, the query         *)
(* "sibling(Y, X)" gets the verdict `confirmed'.  C8_Original states it    *)
(* for all names, C8_SiblingSymmetry for the names the query syntax can    *)
(* express (no parenthesis, no comma, no surrounding whitespace).          *)
(***************************************************************************)
OnlySiblingFact(x, y) == relationships = <<Relationship(x, y, sibling, TRUE)>>

C8_Original ==
    \A x \in EntityNamesOf(relationships), y \in EntityNamesOf(relationships) :
        /\ Done
        /\ x # y
        /\ OnlySiblingFact(x, y)
        /\ query = QueryText(sibling, y, x)
        => outcome = Success(ConfirmedVerdict)

C8_SiblingSymmetry ==
    \A x \in EntityNamesOf(relationships), y \in EntityNamesOf(relationships) :
        /\ Done
        /\ x # y
        /\ PlainName(x)
        /\ PlainName(y)
        /\ OnlySiblingFact(x, y)
        /\ query = QueryText(sibling, y, x)
        => /\ Succeeded
           /\ outcome.value.result = TRUE
           /\ outcome.value.is_satisfiable = TRUE
           /\ outcome.value.explanation = "The relationship is confirmed by the given facts."

C8_Witness ==
    /\ Done
    /\ OnlySiblingFact(alice, bob)
    /\ query = QueryText(sibling, bob, alice)
    /\ neg_result = "unsat"

(***************************************************************************)
(* C9: a fact base holding a fact R(a, b) = true answers the query         *)
(* "R(a, b)" with result true and is_satisfiable true.  C9_Original states *)
(* it for every fact base, C9_Restatement for the fact bases without a     *)
(* contradiction and the names the query syntax can express.               *)
(***************************************************************************)
Restates(f) == f.value /\ query = QueryText(f.relation, f.person1, f.person2)

C9_Original ==
    \A i \in 1..Len(relationships) :
        Done /\ Restates(relationships[i]) =>
            /\ Succeeded
            /\ outcome.value.result = TRUE
            /\ outcome.value.is_satisfiable = TRUE

C9_Restatement ==
    \A i \in 1..Len(relationships) :
        /\ Done
        /\ Restates(relationships[i])
        /\ ~HasContradiction(relationships)
        /\ PlainName(relationships[i].relation)
        /\ PlainName(relationships[i].person1)
        /\ PlainName(relationships[i].person2)
        => /\ Succeeded
           /\ outcome.value.result
           /\ outcome.value.is_satisfiable

C9_Witness ==
    /\ Done
    /\ Len(relationships) = MaxFacts
    /\ relationships[MaxFacts] = Relationship(bob, alice, parent, TRUE)
    /\ query = QueryText(parent, bob, alice)
    /\ ~HasContradiction(relationships)

(***************************************************************************)
(* C10: a query naming a relation or an entity that occurs in no fact ends *)
(* in a Failure: a call that succeeds parsed a query whose relation and    *)
(* entities all occur in the facts, and the text "r(x, y)" with r, x or y  *)
(* foreign to the facts never succeeds; so no call on an empty fact list   *)
(* succeeds.                                                               *)
(***************************************************************************)
KnownNames == {sibling, parent, cousin, alice, bob, carol, smith}

C10_UnknownSymbolFails ==
    Done =>
        /\ Succeeded =>
               /\ query_expr # NoExpr
               /\ query_expr.rel \in RelationNamesOf(relationships)
               /\ query_expr.e1 \in EntityNamesOf(relationships)
               /\ query_expr.e2 \in EntityNamesOf(relationships)
        /\ \A r \in KnownNames, x \in KnownNames, y \in KnownNames :
               /\ query = QueryText(r, x, y)
               /\ \/ r \notin RelationNamesOf(relationships)
                  \/ x \notin EntityNamesOf(relationships)
                  \/ y \notin EntityNamesOf(relationships)
               => /\ Failed
                  /\ base_result = NoAnswer
        /\ relationships = <<>> => Failed

C10_Witness ==
    /\ Done
    /\ Failed
    /\ outcome.error = <<"Unknown entity", carol>>
    /\ relationships # <<>>

\* the form name(arg1, arg2) of a query, whitespace around it set aside
MatchesPattern(q) ==
    LET s == Strip(q)
    IN  /\ Count(s, "(") = 1
        /\ Count(s, ")") = 1
        /\ Count(s, ",") = 1
        /\ s[Len(s)] = ")"
        /\ \E i, j \in 1..Len(s) : i < j /\ s[i] = "(" /\ s[j] = ","

(***************************************************************************)
(* C11: a query string from which parse_query makes a formula has the form *)
(* name(arg1, arg2): one "(", one ")" which ends the string (whitespace    *)
(* around it set aside) and follows the "(", and two arguments separated   *)
(* by one comma.                                                           *)
(***************************************************************************)
C11_OnlyPatternAccepted == query_expr # NoExpr => MatchesPattern(query)

(***************************************************************************)
(* solve_problem: the declared variables.                                  *)
(***************************************************************************)
MaxVars == 2

MaxConstraints == 2

VariableType == {"integer", "real", "boolean", "string"}

\* A type outside the enumeration, which only the default case of
\* create_variable meets.
UNSUPPORTED == "complex"

Variable(name, type) == [name |-> name, type |-> type]

\* A Z3 constant of a sort, as Int(name), Real(name), Bool(name), String(name)
\* make it.
Z3Const(name, sort) == [t |-> "z3", op |-> "const", sort |-> sort, name |-> name]

create_variable(variable) ==
    CASE variable.type = "integer" -> Success(<<variable.name, Z3Const(variable.name, "Int")>>)
      [] variable.type = "real" -> Success(<<variable.name, Z3Const(variable.name, "Real")>>)
      [] variable.type = "boolean" -> Success(<<variable.name, Z3Const(variable.name, "Bool")>>)
      [] variable.type = "string" -> Success(<<variable.name, Z3Const(variable.name, "String")>>)
      [] OTHER -> Failure("Unsupported variable type", variable.type)

Put(table, key, value) ==
    [k \in DOMAIN table \cup {key} |-> IF k = key THEN value ELSE table[k]]

\* The loop of create_variables from the i-th variable on; declared is the
\* number of variables create_variable was called for.
RECURSIVE create_variables_from(_, _, _)
create_variables_from(vs, i, result_dict) ==
    IF i > Len(vs)
    THEN [declared |-> Len(vs), result |-> Success(result_dict)]
    ELSE LET result == create_variable(vs[i])
         IN  IF result.kind = "Failure"
             THEN [declared |-> i, result |-> result]
             ELSE create_variables_from(vs, i + 1,
                      Put(result_dict, result.value[1], result.value[2]))

\* A variant that skips the variables it cannot declare.
RECURSIVE create_variables_BestEffort(_)
create_variables_BestEffort(vs) ==
    IF vs = <<>>
    THEN [declared |-> 0, result |-> Success(EmptyTable)]
    ELSE LET front == create_variables_BestEffort(SubSeq(vs, 1, Len(vs) - 1))
             last == create_variable(vs[Len(vs)])
         IN  [declared |-> front.declared + 1,
              result |-> Success(IF last.kind = "Success"
                                 THEN Put(front.result.value, last.value[1], last.value[2])
                                 ELSE front.result.value)]

create_variables(vs) == create_variables_from(vs, 1, EmptyTable)

(***************************************************************************)
(* solve_problem: constraint expressions.  An expression is Python source  *)
(* text; eval parses it and evaluates the syntax tree in local_dict.       *)
(***************************************************************************)
Constraint(expression) == [expression |-> expression]

\* Syntax trees.
Name(id) == [node |-> "Name", id |-> id]

Num(n) == [node |-> "Num", n |-> n]

Str(s) == [node |-> "Str", s |-> s]

USub(operand) == [node |-> "USub", operand |-> operand]

BinOp(left, op, right) == [node |-> "BinOp", left |-> left, op |-> op, right |-> right]

Call(func, args) == [node |-> "Call", func |-> func, args |-> args]

Attribute(value, attr) == [node |-> "Attribute", value |-> value, attr |-> attr]

NoTree == [node |-> "SyntaxError"]

\* The syntax tree Python's parser makes of each expression text of the
\* inputs; any other text is taken as not parsing.
PyParse(text) ==
    CASE text = "x == 5/2" -> BinOp(Name("x"), "==", BinOp(Num(5), "/", Num(2)))
      [] text = "x == -5/2" -> BinOp(Name("x"), "==", BinOp(USub(Num(5)), "/", Num(2)))
      [] text = "x == 2" -> BinOp(Name("x"), "==", Num(2))
      [] text = "x * x == 2" -> BinOp(BinOp(Name("x"), "*", Name("x")), "==", Num(2))
      [] text = "n == 3" -> BinOp(Name("n"), "==", Num(3))
      [] text = "b" -> Name("b")
      [] text = "Not(b)" -> Call(Name("Not"), <<Name("b")>>)
      [] text = "And(b, n == 3)" -> Call(Name("And"), <<Name("b"), BinOp(Name("n"), "==", Num(3))>>)
      [] text = "s == \"abc\"" -> BinOp(Name("s"), "==", Str(<<"a", "b", "c">>))
      [] text = "x + 1" -> BinOp(Name("x"), "+", Num(1))
      [] text = "(1).__class__" -> Attribute(Num(1), "__class__")
      [] OTHER -> NoTree

\* Rationals in lowest terms with a positive denominator.
Abs(i) == IF i < 0 THEN -i ELSE i

RECURSIVE Gcd(_, _)
Gcd(a, b) == IF b = 0 THEN a ELSE Gcd(b, a % b)

Rat(num, den) ==
    LET g == Gcd(Abs(num), Abs(den))
        sgn == IF den < 0 THEN -1 ELSE 1
    IN  [kind |-> "rat", num |-> sgn * (num \div g), den |-> sgn * (den \div g)]

\* Python values: int and float (both held as rationals), bool, str, a
\* callable of local_dict, any other host object, a Z3 expression, and a
\* raised exception.
PyInt(n) == [t |-> "int", val |-> Rat(n, 1)]

PyFloat(r) == [t |-> "float", val |-> r]

PyBool(v) == [t |-> "bool", val |-> v]

PyStr(chars) == [t |-> "str", val |-> chars]

PyFunction(name) == [t |-> "function", name |-> name]

PyObject(what) == [t |-> "object", what |-> what]

Raise(exc) == [t |-> "raise", exc |-> exc]

\* Z3 expressions.
Z3Val(sort, val) == [t |-> "z3", op |-> "val", sort |-> sort, val |-> val]

Z3App(op, sort, args) == [t |-> "z3", op |-> op, sort |-> sort, args |-> args]

Combinators == {"And", "Or", "Not", "Implies", "ForAll", "Exists", "If", "Distinct"}

\* parse_constraint's local_dict: the variables, overridden by the
\* combinators and the two truth values.
LocalDict(vars_dict) ==
    [name \in DOMAIN vars_dict \cup Combinators \cup {"true", "false"} |->
        IF name \in Combinators THEN PyFunction(name)
        ELSE IF name = "true" THEN PyBool(TRUE)
        ELSE IF name = "false" THEN PyBool(FALSE)
        ELSE vars_dict[name]]

\* z3's conversion of a Python value to an expression of a sort.
Z3Coerce(v, sort) ==
    CASE v.t = "z3" /\ v.sort = sort -> v
      [] v.t = "int" /\ sort = "Int" -> Z3Val("Int", v.val.num)
      [] v.t \in {"int", "float"} /\ sort = "Real" -> Z3Val("Real", v.val)
      [] v.t = "bool" /\ sort = "Bool" -> Z3Val("Bool", v.val)
      [] v.t = "str" /\ sort = "String" -> Z3Val("String", v.val)
      [] OTHER -> Raise("Z3Exception")

IsNumber(v) == v.t \in {"int", "float"}

\* A binary operator applied to two Python values.
PyBinOp(op, l, r) ==
    IF l.t # "z3" /\ r.t # "z3"
    THEN IF IsNumber(l) /\ IsNumber(r)
         THEN CASE op = "/" -> IF r.val.num = 0 THEN Raise("ZeroDivisionError")
                               ELSE PyFloat(Rat(l.val.num * r.val.den, l.val.den * r.val.num))
                [] op = "+" -> [t |-> IF l.t = "int" /\ r.t = "int" THEN "int" ELSE "float",
                                val |-> Rat(l.val.num * r.val.den + r.val.num * l.val.den,
                                            l.val.den * r.val.den)]
                [] op = "*" -> [t |-> IF l.t = "int" /\ r.t = "int" THEN "int" ELSE "float",
                                val |-> Rat(l.val.num * r.val.num, l.val.den * r.val.den)]
                [] op = "==" -> PyBool(l.val = r.val)
         ELSE IF op = "==" THEN PyBool(l.t = r.t /\ l = r) ELSE Raise("TypeError")
    ELSE LET sort == IF l.t = "z3" THEN l.sort ELSE r.sort
             a == Z3Coerce(l, sort)
             b == Z3Coerce(r, sort)
         IN  IF a.t = "raise" THEN a
             ELSE IF b.t = "raise" THEN b
             ELSE IF op = "==" THEN Z3App("=", "Bool", <<a, b>>)
             ELSE IF sort \in {"Int", "Real"} THEN Z3App(op, sort, <<a, b>>)
             ELSE Raise("TypeError")

\* A combinator applied to evaluated arguments.
PyCall(f, args) ==
    IF f.t # "function" THEN Raise("TypeError")
    ELSE LET as == [i \in 1..Len(args) |-> Z3Coerce(args[i], "Bool")]
             bad == {i \in 1..Len(args) : as[i].t = "raise"}
         IN  IF bad # {} THEN Raise("Z3Exception")
             ELSE CASE f.name = "And" -> Z3App("and", "Bool", as)
                    [] f.name = "Or" -> Z3App("or", "Bool", as)
                    [] f.name = "Not" /\ Len(as) = 1 -> Z3App("not", "Bool", as)
                    [] f.name = "Implies" /\ Len(as) = 2 -> Z3App("=>", "Bool", as)
                    [] OTHER -> Raise("TypeError")

\* Python's eval of a syntax tree: a name is looked up in local_dict (the
\* globals and the builtins given to eval are empty), an attribute on the
\* object itself.
RECURSIVE Eval(_, _)
Eval(e, local_dict) ==
    CASE e.node = "SyntaxError" -> Raise("SyntaxError")
      [] e.node = "Name" -> IF e.id \in DOMAIN local_dict THEN local_dict[e.id]
                            ELSE Raise("NameError")
      [] e.node = "Num" -> PyInt(e.n)
      [] e.node = "Str" -> PyStr(e.s)
      [] e.node = "USub" ->
            LET v == Eval(e.operand, local_dict)
            IN  IF v.t = "raise" THEN v
                ELSE IF IsNumber(v) THEN [t |-> v.t, val |-> Rat(-v.val.num, v.val.den)]
                ELSE IF v.t = "z3" /\ v.sort \in {"Int", "Real"}
                     THEN Z3App("-", v.sort, <<v>>)
                ELSE Raise("TypeError")
      [] e.node = "BinOp" ->
            LET l == Eval(e.left, local_dict)
                r == Eval(e.right, local_dict)
            IN  IF l.t = "raise" THEN l
                ELSE IF r.t = "raise" THEN r
                ELSE PyBinOp(e.op, l, r)
      [] e.node = "Call" ->
            LET f == Eval(e.func, local_dict)
                args == [i \in 1..Len(e.args) |-> Eval(e.args[i], local_dict)]
            IN  IF f.t = "raise" THEN f
                ELSE IF \E i \in 1..Len(args) : args[i].t = "raise"
                     THEN Raise("Exception")
                ELSE PyCall(f, args)
      [] e.node = "Attribute" ->
            LET v == Eval(e.value, local_dict)
            IN  IF v.t = "raise" THEN v
                ELSE IF e.attr = "__class__" THEN PyObject("class")
                ELSE Raise("AttributeError")

parse_constraint(constraint, vars_dict) ==
    LET value == Eval(PyParse(constraint.expression), LocalDict(vars_dict))
    IN  IF value.t = "raise"
        THEN Failure("Error parsing constraint", constraint.expression)
        ELSE Success(value)

\* The loop of create_constraints from the i-th constraint on; compiled is
\* the number of constraints parse_constraint was called for.
RECURSIVE create_constraints_from(_, _, _, _)
create_constraints_from(cs, vars_dict, i, compiled) ==
    IF i > Len(cs)
    THEN [parsed |-> Len(cs), result |-> Success(compiled)]
    ELSE LET result == parse_constraint(cs[i], vars_dict)
         IN  IF result.kind = "Failure"
             THEN [parsed |-> i, result |-> result]
             ELSE create_constraints_from(cs, vars_dict, i + 1,
                                          Append(compiled, result.value))

\* A variant that leaves out the constraints it cannot compile.
RECURSIVE create_constraints_BestEffort(_, _)
create_constraints_BestEffort(cs, vars_dict) ==
    IF cs = <<>>
    THEN [parsed |-> 0, result |-> Success(<<>>)]
    ELSE LET first == parse_constraint(Head(cs), vars_dict)
             rest == create_constraints_BestEffort(Tail(cs), vars_dict)
         IN  [parsed |-> rest.parsed + 1,
              result |-> Success((IF first.kind = "Success" THEN <<first.value>> ELSE <<>>)
                                 \o rest.result.value)]

create_constraints(cs, vars_dict) == create_constraints_from(cs, vars_dict, 1, <<>>)

(***************************************************************************)
(* solve_problem: the backend.  A model assigns a value of its sort to     *)
(* every constant of the asserted constraints.                             *)
(***************************************************************************)
\* The irrational values +sqrt(2) and -sqrt(2).
Root2(sign) == [kind |-> "root", num |-> sign, den |-> 1]

IntValues == {0, 3}

RealValues == {Rat(5, 2), Rat(-5, 2), Rat(2, 1), Root2(1), Root2(-1)}

StringValues == {<<>>, <<"a", "b", "c">>}

Assignments == [x : RealValues, n : IntValues, b : BOOLEAN, s : StringValues]

DefaultAssignment == [x |-> Rat(2, 1), n |-> 0, b |-> FALSE, s |-> <<>>]

RealTimes(a, b) ==
    CASE a.kind = "rat" /\ b.kind = "rat" -> Rat(a.num * b.num, a.den * b.den)
      [] a.kind = "root" /\ b.kind = "root" -> Rat(2 * a.num * b.num, 1)

RealPlus(a, b) ==
    CASE a.kind = "rat" /\ b.kind = "rat" ->
            Rat(a.num * b.den + b.num * a.den, a.den * b.den)

RECURSIVE Z3Eval(_, _)
Z3Eval(e, asg) ==
    CASE e.op = "const" -> asg[e.name]
      [] e.op = "val" -> e.val
      [] e.op = "=" -> Z3Eval(e.args[1], asg) = Z3Eval(e.args[2], asg)
      [] e.op = "and" -> \A i \in 1..Len(e.args) : Z3Eval(e.args[i], asg)
      [] e.op = "or" -> \E i \in 1..Len(e.args) : Z3Eval(e.args[i], asg)
      [] e.op = "not" -> ~Z3Eval(e.args[1], asg)
      [] e.op = "=>" -> Z3Eval(e.args[1], asg) => Z3Eval(e.args[2], asg)
      [] e.op = "*" -> IF e.sort = "Int"
                       THEN Z3Eval(e.args[1], asg) * Z3Eval(e.args[2], asg)
                       ELSE RealTimes(Z3Eval(e.args[1], asg), Z3Eval(e.args[2], asg))
      [] e.op = "+" -> IF e.sort = "Int"
                       THEN Z3Eval(e.args[1], asg) + Z3Eval(e.args[2], asg)
                       ELSE RealPlus(Z3Eval(e.args[1], asg), Z3Eval(e.args[2], asg))

RECURSIVE Z3Consts(_)
Z3Consts(e) ==
    CASE e.op = "const" -> {e.name}
      [] e.op = "val" -> {}
      [] OTHER -> UNION {Z3Consts(e.args[i]) : i \in 1..Len(e.args)}

\* solver.add takes a Boolean expression or a Python truth value.
Asserted(constraints) == [i \in 1..Len(constraints) |-> Z3Coerce(constraints[i], "Bool")]

Occurring(constraints) ==
    UNION {Z3Consts(Asserted(constraints)[i]) : i \in 1..Len(constraints)}

\* The assignments that satisfy the constraints; a constant that does not
\* occur keeps its default, so that each model is counted once.
Z3Models(constraints) ==
    {asg \in Assignments :
        /\ \A i \in 1..Len(constraints) : Z3Eval(Asserted(constraints)[i], asg)
        /\ \A name \in DOMAIN asg \ Occurring(constraints) :
              asg[name] = DefaultAssignment[name]}

Z3Check(constraints) == IF Z3Models(constraints) # {} THEN "sat" ELSE "unsat"

NoModel == [present |-> FALSE, binds |-> EmptyTable]

\* solver.model(): the values of the constants that occur.
ModelOf(vars_dict, constraints, asg) ==
    [present |-> TRUE,
     binds |-> [name \in Occurring(constraints) |-> Z3Val(vars_dict[name].sort, asg[name])]]

\* A variant whose session also holds the assertions of another session.
solve_SharedSession(vars_dict, constraints, answer, asg) ==
    IF \E i \in 1..Len(constraints) : Asserted(constraints)[i].t = "raise"
    THEN Failure("Error solving constraints", "Z3Exception")
    ELSE IF answer = "sat" /\ SolverCheck(assertions) = "sat"
         THEN Success(<<answer, ModelOf(vars_dict, constraints, asg)>>)
         ELSE Success(<<IF answer = "sat" THEN "unsat" ELSE answer, NoModel>>)

\* solve, given the answer of solver.check() and the model of solver.model().
solve(vars_dict, constraints, answer, asg) ==
    IF \E i \in 1..Len(constraints) : Asserted(constraints)[i].t = "raise"
    THEN Failure("Error solving constraints", "Z3Exception")
    ELSE IF answer = "sat"
         THEN Success(<<answer, ModelOf(vars_dict, constraints, asg)>>)
         ELSE Success(<<answer, NoModel>>)

(***************************************************************************)
(* solve_problem: from model values to Python values.                      *)
(***************************************************************************)
Digits == <<"0", "1", "2", "3", "4", "5", "6", "7", "8", "9">>

IsDigit(c) == \E d \in 1..10 : Digits[d] = c

DigitValue(c) == (CHOOSE d \in 1..10 : Digits[d] = c) - 1

RECURSIVE NatToStr(_)
NatToStr(k) == IF k < 10 THEN <<Digits[k + 1]>> ELSE NatToStr(k \div 10) \o <<Digits[(k % 10) + 1]>>

IntToStr(k) == IF k < 0 THEN <<"-">> \o NatToStr(-k) ELSE NatToStr(k)

\* str() of a model value: a numeral, a ratio p/q, a decimal approximation
\* ending in "?" of an irrational, True or False, a quoted string.
Z3Str(v) ==
    CASE v.sort = "Int" -> IntToStr(v.val)
      [] v.sort = "Real" ->
            IF v.val.kind = "root"
            THEN (IF v.val.num < 0 THEN <<"-">> ELSE <<>>) \o <<"1", ".", "4", "1", "4", "?">>
            ELSE IF v.val.den = 1 THEN IntToStr(v.val.num)
            ELSE IntToStr(v.val.num) \o <<"/">> \o IntToStr(v.val.den)
      [] v.sort = "Bool" -> IF v.val THEN <<"T", "r", "u", "e">> ELSE <<"F", "a", "l", "s", "e">>
      [] v.sort = "String" -> <<"\"">> \o v.val \o <<"\"">>

Some(v) == [kind |-> "Some", value |-> v]

Nothing == [kind |-> "Nothing"]

RECURSIVE DigitsValue(_)
DigitsValue(ds) ==
    IF ds = <<>> THEN 0
    ELSE 10 * DigitsValue(SubSeq(ds, 1, Len(ds) - 1)) + DigitValue(ds[Len(ds)])

AllDigits(ds) == ds # <<>> /\ \A i \in 1..Len(ds) : IsDigit(ds[i])

Unsigned(str_value) ==
    IF str_value # <<>> /\ str_value[1] \in {"-", "+"} THEN Tail(str_value) ELSE str_value

Sign(str_value) == IF str_value # <<>> /\ str_value[1] = "-" THEN -1 ELSE 1

\* int(str_value): Some integer, or Nothing where Python raises ValueError.
PyIntOf(str_value) ==
    LET t == Strip(str_value)
    IN  IF AllDigits(Unsigned(t)) THEN Some(Sign(t) * DigitsValue(Unsigned(t))) ELSE Nothing

RECURSIVE Pow10(_)
Pow10(k) == IF k = 0 THEN 1 ELSE 10 * Pow10(k - 1)

\* float(str_value) of a decimal numeral: Some rational, or Nothing where
\* Python raises ValueError.
PyFloatOf(str_value) ==
    LET t == Unsigned(Strip(str_value))
        parts == Split(t, ".")
    IN  IF Len(parts) = 1 /\ AllDigits(parts[1])
        THEN Some(Rat(Sign(Strip(str_value)) * DigitsValue(parts[1]), 1))
        ELSE IF Len(parts) = 2 /\ AllDigits(parts[1] \o parts[2])
                /\ \A i \in 1..2 : parts[i] = <<>> \/ AllDigits(parts[i])
        THEN Some(Rat(Sign(Strip(str_value))
                        * (DigitsValue(parts[1]) * Pow10(Len(parts[2])) + DigitsValue(parts[2])),
                      Pow10(Len(parts[2]))))
        ELSE Nothing

\* A variant that divides the integers instead of the floats.
RealOfRatio_Floor(num, den) == Rat(num \div den, 1)

\* float(int(num_str)) / float(int(den_str))
RealOfRatio(num, den) == Rat(num, den)

get_z3_value(model, z3_var) ==
    IF z3_var.name \notin DOMAIN model.binds
    THEN Nothing
    ELSE LET z3_value == model.binds[z3_var.name]
             str_value == Z3Str(z3_value)
         IN  CASE z3_var.sort = "Bool" -> Some(PyBool(z3_value.val = TRUE))
               [] z3_var.sort = "Int" ->
                     IF PyIntOf(str_value).kind = "Some"
                     THEN Some(PyInt(PyIntOf(str_value).value))
                     ELSE Nothing
               [] z3_var.sort = "Real" ->
                     IF Contains(str_value, "/")
                     THEN LET parts == Split(str_value, "/")
                          IN  IF Len(parts) # 2 THEN Nothing
                              ELSE IF PyIntOf(parts[1]).kind = "Nothing" THEN Nothing
                              ELSE IF PyIntOf(parts[2]).kind = "Nothing" THEN Nothing
                              ELSE IF PyIntOf(parts[2]).value = 0 THEN Nothing
                              ELSE Some(PyFloat(RealOfRatio(PyIntOf(parts[1]).value,
                                                            PyIntOf(parts[2]).value)))
                     ELSE IF PyFloatOf(str_value).kind = "Some"
                          THEN Some(PyFloat(PyFloatOf(str_value).value))
                          ELSE Nothing
               [] OTHER -> Some(PyStr(str_value))

Solution(values, is_satisfiable, status) ==
    [values |-> values, is_satisfiable |-> is_satisfiable, status |-> status]

\* A variant that reports every answer but sat as unsat.
extract_solution_TwoValued(result, model, vars_dict) ==
    Success(Solution(
        IF result = "sat" /\ model.present
        THEN [name \in {k \in DOMAIN vars_dict : get_z3_value(model, vars_dict[k]).kind = "Some"} |->
                 get_z3_value(model, vars_dict[name]).value]
        ELSE EmptyTable,
        result = "sat",
        IF result = "sat" THEN "sat" ELSE "unsat"))

\* A variant that gives a variable without a value a default.
extract_solution_Defaulted(result, model, vars_dict) ==
    Success(Solution(
        IF result = "sat" /\ model.present
        THEN [name \in DOMAIN vars_dict |->
                 IF get_z3_value(model, vars_dict[name]).kind = "Some"
                 THEN get_z3_value(model, vars_dict[name]).value
                 ELSE PyInt(0)]
        ELSE EmptyTable,
        result = "sat",
        result))

extract_solution(result, model, vars_dict) ==
    LET status == result
        is_satisfiable == result = "sat"
    IN  Success(Solution(
            IF is_satisfiable /\ model.present
            THEN [name \in {k \in DOMAIN vars_dict : get_z3_value(model, vars_dict[k]).kind = "Some"} |->
                     get_z3_value(model, vars_dict[name]).value]
            ELSE EmptyTable,
            is_satisfiable,
            status))

(***************************************************************************)
(* solve_problem: the requests and the steps of one call.                  *)
(***************************************************************************)
Variables ==
    {Variable("x", "real"), Variable("n", "integer"), Variable("b", "boolean"),
     Variable("s", "string"), Variable("u", UNSUPPORTED)}

Expressions ==
    {"x == 5/2", "x == -5/2", "x == 2", "x * x == 2", "n == 3", "b", "Not(b)",
     "And(b, n == 3)", "s == \"abc\"", "x + 1", "(1).__class__", "x >"}

VariableLists == UNION {[1..k -> Variables] : k \in 0..MaxVars}

ConstraintLists ==
    UNION {[1..k -> {Constraint(e) : e \in Expressions}] : k \in 0..MaxConstraints}

Problems == {Problem(vs, cs) : vs \in VariableLists, cs \in ConstraintLists}

RelIdle ==
    /\ relationships = <<>>
    /\ query = <<>>
    /\ pc = "idle"
    /\ entities = EmptyTable
    /\ relations = EmptyTable
    /\ assertions = <<>>
    /\ scopes = <<>>
    /\ query_expr = NoExpr
    /\ base_result = NoAnswer
    /\ neg_result = NoAnswer
    /\ pos_result = NoAnswer
    /\ outcome = Pending
    /\ calls = <<>>

relVars == <<relationships, query, pc, entities, relations, assertions, scopes,
             query_expr, base_result, neg_result, pos_result, outcome, calls>>

SolveStart(p) ==
    /\ problem = p
    /\ sp = "start"
    /\ variables = EmptyTable
    /\ z3_constraints = <<>>
    /\ solve_result = NoAnswer
    /\ solution = Pending
    /\ sp_calls = <<>>

InitSolve ==
    /\ RelIdle
    /\ ToolIdle
    /\ \E p \in Problems : SolveStart(p)

SolveReturn(r) ==
    /\ solution' = r
    /\ sp' = "done"

Repeat(n, c) == [i \in 1..n |-> c]

CreateVariables ==
    /\ sp = "start"
    /\ LET r == create_variables(problem.variables)
       IN  /\ sp_calls' = sp_calls \o Repeat(r.declared, "create_variable")
           /\ IF r.result.kind = "Failure"
              THEN SolveReturn(r.result) /\ UNCHANGED variables
              ELSE variables' = r.result.value /\ sp' = "create_constraints"
                   /\ UNCHANGED solution
    /\ UNCHANGED <<toolVars, relVars, problem, z3_constraints, solve_result>>

\* A variant that goes on to solve what was compiled before the failure.
CreateConstraints_GoesOn ==
    /\ sp = "create_constraints"
    /\ LET r == create_constraints(problem.constraints, variables)
       IN  /\ sp_calls' = sp_calls \o Repeat(r.parsed, "parse_constraint")
           /\ sp' = "solve"
           /\ IF r.result.kind = "Failure"
              THEN solution' = r.result /\ UNCHANGED z3_constraints
              ELSE z3_constraints' = r.result.value /\ UNCHANGED solution
    /\ UNCHANGED <<toolVars, relVars, problem, variables, solve_result>>

CreateConstraints ==
    /\ sp = "create_constraints"
    /\ LET r == create_constraints(problem.constraints, variables)
       IN  /\ sp_calls' = sp_calls \o Repeat(r.parsed, "parse_constraint")
           /\ IF r.result.kind = "Failure"
              THEN SolveReturn(r.result) /\ UNCHANGED z3_constraints
              ELSE z3_constraints' = r.result.value /\ sp' = "solve"
                   /\ UNCHANGED solution
    /\ UNCHANGED <<toolVars, relVars, problem, variables, solve_result>>

\* solve, where adding the constraints raises: no check is made.
SolveAddRaises ==
    /\ sp = "solve"
    /\ \E i \in 1..Len(z3_constraints) : Asserted(z3_constraints)[i].t = "raise"
    /\ sp_calls' = sp_calls \o <<"solve", "add">>
    /\ SolveReturn(solve(variables, z3_constraints, NoAnswer, DefaultAssignment))
    /\ UNCHANGED <<toolVars, relVars, problem, variables, z3_constraints, solve_result>>

\* solve, where the check answers and, when it answers sat, the model is asg.
Solve(answer, asg) ==
    /\ sp = "solve"
    /\ \A i \in 1..Len(z3_constraints) : Asserted(z3_constraints)[i].t # "raise"
    /\ LET r == solve(variables, z3_constraints, answer, asg)
       IN  /\ sp_calls' = sp_calls \o <<"solve", "add", "check">>
                             \o (IF r.value[1] = "sat" THEN <<"model">> ELSE <<>>)
           /\ solve_result' = r.value
    /\ sp' = "extract_solution"
    /\ UNCHANGED <<toolVars, relVars, problem, variables, z3_constraints, solution>>

SolveDecided ==
    /\ sp = "solve"
    /\ \A i \in 1..Len(z3_constraints) : Asserted(z3_constraints)[i].t # "raise"
    /\ IF Z3Check(z3_constraints) = "sat"
       THEN \E asg \in Z3Models(z3_constraints) : Solve("sat", asg)
       ELSE Solve("unsat", DefaultAssignment)

SolveUnknown == Solve("unknown", DefaultAssignment)

ExtractSolution ==
    /\ sp = "extract_solution"
    /\ sp_calls' = Append(sp_calls, "extract_solution")
    /\ SolveReturn(extract_solution(solve_result[1], solve_result[2], variables))
    /\ UNCHANGED <<toolVars, relVars, problem, variables, z3_constraints, solve_result>>

NextSolve ==
    \/ CreateVariables
    \/ CreateConstraints
    \/ SolveAddRaises
    \/ SolveDecided
    \/ SolveUnknown
    \/ ExtractSolution

SpecSolve == InitSolve /\ [][NextSolve]_vars

\* One request of either kind.
InitRequest == Init \/ InitSolve

NextRequest == NextFaulty \/ NextSolve

SpecRequest == InitRequest /\ [][NextRequest]_vars

(***************************************************************************)
(* Two requests in progress at once, one of each kind, their steps         *)
(* interleaved in any order; a request may also run alone.                 *)
(***************************************************************************)
RelationshipQuery(rels, q) == [relationships |-> rels, query |-> q]

ConcurrentQueries ==
    {RelationshipQuery(<<Relationship(alice, bob, sibling, TRUE)>>,
                       QueryText(sibling, bob, alice)),
     RelationshipQuery(<<Relationship(alice, bob, sibling, FALSE)>>,
                       QueryText(sibling, alice, bob)),
     RelationshipQuery(<<Relationship(alice, bob, parent, TRUE)>>,
                       QueryText(parent, bob, alice)),
     RelationshipQuery(<<Relationship(alice, bob, sibling, TRUE),
                         Relationship(alice, bob, sibling, FALSE)>>,
                       QueryText(sibling, alice, bob)),
     RelationshipQuery(<<Relationship(alice, bob, sibling, TRUE)>>,
                       QueryText(cousin, alice, bob))}

ConcurrentProblems ==
    {Problem(<<Variable("x", "real")>>, <<Constraint("x == 5/2")>>),
     Problem(<<Variable("b", "boolean")>>, <<Constraint("b"), Constraint("Not(b)")>>),
     Problem(<<Variable("x", "real")>>, <<Constraint("x >")>>),
     Problem(<<Variable("x", "real")>>, <<Constraint("x + 1")>>),
     Problem(<<Variable("u", UNSUPPORTED)>>, <<>>)}

RelStart(rq) ==
    /\ relationships = rq.relationships
    /\ query = rq.query
    /\ pc = "start"
    /\ entities = EmptyTable
    /\ relations = EmptyTable
    /\ assertions = <<>>
    /\ scopes = <<>>
    /\ query_expr = NoExpr
    /\ base_result = NoAnswer
    /\ neg_result = NoAnswer
    /\ pos_result = NoAnswer
    /\ outcome = Pending
    /\ calls = <<>>

InitConcurrent ==
    /\ RelIdle \/ \E rq \in ConcurrentQueries : RelStart(rq)
    /\ SolveIdle \/ \E p \in ConcurrentProblems : SolveStart(p)
    /\ ~(pc = "idle" /\ sp = "idle")
    /\ ToolIdle

NextConcurrent == Next \/ NextSolve

SpecConcurrent == InitConcurrent /\ [][NextConcurrent]_vars

(***************************************************************************)
(* Properties of solve_problem.                                            *)
(***************************************************************************)
SolveDone == sp = "done"

Extracted == Count(sp_calls, "extract_solution") = 1

\* the model value of a bound name converts to a Python value unless it is
\* an irrational real, whose canonical form is no numeral
Convertible(v) == ~(v.sort = "Real" /\ v.val.kind = "root")

(* C12: whenever solve_problem returns a Solution, exactly one check was   *)
(* made, status is the tag the check answered (sat, unsat or unknown) and  *)
(* is_satisfiable is true exactly when that tag is sat.                    *)
C12_StatusIsBackendTag ==
    SolveDone /\ solution.kind = "Success" =>
        /\ Count(sp_calls, "check") = 1
        /\ solution.value.status = solve_result[1]
        /\ solution.value.is_satisfiable <=> (solve_result[1] = "sat")

C12_Witness ==
    /\ SolveDone
    /\ solution.kind = "Success"
    /\ solve_result[1] = "unknown"
    /\ solution.value.status = "unknown"
    /\ ~solution.value.is_satisfiable

(* C13: once extract_solution has run the call returns a Solution, never a *)
(* Failure; its values are empty unless the answer was sat, and when it    *)
(* was sat the keys of values are exactly the declared names that the      *)
(* model binds to a value that converts.                                   *)
C13_ValuesAreBoundAndConverted ==
    SolveDone /\ Extracted =>
        /\ solution.kind = "Success"
        /\ solve_result[1] # "sat" => DOMAIN solution.value.values = {}
        /\ solve_result[1] = "sat" =>
              DOMAIN solution.value.values =
                  {name \in DOMAIN variables :
                      /\ name \in DOMAIN solve_result[2].binds
                      /\ Convertible(solve_result[2].binds[name])}

C13_Witness ==
    /\ SolveDone
    /\ Extracted
    /\ solve_result[1] = "sat"
    /\ \E name \in DOMAIN variables : name \notin DOMAIN solve_result[2].binds
    /\ \E name \in DOMAIN variables :
          /\ name \in DOMAIN solve_result[2].binds
          /\ ~Convertible(solve_result[2].binds[name])
    /\ DOMAIN solution.value.values = {}

\* the stages and solver calls a log holds besides those named
Only(log, names) == \A i \in 1..Len(log) : log[i] \in names

StageFailure(r) == r.kind = "Failure" /\ r.error[1] \notin
    {"Error analyzing relationships", "Error evaluating query"}

(* C14: a Failure ends the request at once and is the failing stage's own  *)
(* Failure.  In solve_problem a failed declaration is followed by no       *)
(* compilation, solving or extraction, a failed compilation by no solving  *)
(* or extraction, a failed solve by no extraction.  In                     *)
(* analyze_relationships a failure of declaration, fact assertion or query *)
(* parsing is returned with no check made.  No stage and no check is run   *)
(* twice: solve_problem checks at most once, analyze_relationships at most *)
(* once for the fact base and once for each probe.                         *)
C14_FailureAbortsNoRetry ==
    /\ solution.kind = "Failure" =>
          /\ SolveDone
          /\ solution.error[1] = "Unsupported variable type" =>
                /\ solution = create_variables(problem.variables).result
                /\ Only(sp_calls, {"create_variable"})
          /\ solution.error[1] = "Error parsing constraint" =>
                /\ solution = create_constraints(problem.constraints, variables).result
                /\ Only(sp_calls, {"create_variable", "parse_constraint"})
          /\ solution.error[1] = "Error solving constraints" =>
                /\ Only(sp_calls, {"create_variable", "parse_constraint", "solve", "add"})
    /\ Count(sp_calls, "create_variable") <= Len(problem.variables)
    /\ Count(sp_calls, "parse_constraint") <= Len(problem.constraints)
    /\ \A c \in {"solve", "add", "check", "model", "extract_solution"} :
          Count(sp_calls, c) <= 1
    /\ Failed => Done
    /\ StageFailure(outcome) =>
          /\ outcome \in {add_relationship_assertions(relationships, entities, relations).result,
                          parse_query(query, entities, relations)}
          /\ Count(calls, "check") = 0
    /\ Count(calls, "check") <=
          Cardinality({r \in {<<1, base_result>>, <<2, neg_result>>, <<3, pos_result>>} :
                          r[2] # NoAnswer})
          + (IF Failed /\ ~StageFailure(outcome) THEN 1 ELSE 0)

C14_Witness ==
    /\ SolveDone
    /\ solution.kind = "Failure"
    /\ solution.error[1] = "Error parsing constraint"
    /\ Len(problem.constraints) = 2
    /\ Count(sp_calls, "parse_constraint") = 1
    /\ Count(sp_calls, "check") = 0

\* the positions of the variables whose type is none of the four kinds
Undeclarable(vs) == {i \in 1..Len(vs) : vs[i].type \notin VariableType}

First(positions) == CHOOSE i \in positions : \A j \in positions : i <= j

(* C15: when some variable of the problem has an unsupported type, the     *)
(* call ends in create_variables with the Failure of the first such        *)
(* variable; create_variable was called for the variables up to that one   *)
(* and no further, and no symbol table, not even of the variables before   *)
(* it, is kept.                                                            *)
C15_DeclarationShortCircuits ==
    sp # "start" /\ Undeclarable(problem.variables) # {} =>
        LET k == First(Undeclarable(problem.variables))
        IN  /\ SolveDone
            /\ solution = Failure("Unsupported variable type", problem.variables[k].type)
            /\ sp_calls = Repeat(k, "create_variable")
            /\ variables = EmptyTable

C15_Witness ==
    /\ SolveDone
    /\ Len(problem.variables) = 2
    /\ Undeclarable(problem.variables) = {2}
    /\ solution.kind = "Failure"
    /\ variables = EmptyTable

\* the names a syntax tree mentions
RECURSIVE NamesOf(_)
NamesOf(e) ==
    CASE e.node = "Name" -> {e.id}
      [] e.node = "USub" -> NamesOf(e.operand)
      [] e.node = "BinOp" -> NamesOf(e.left) \cup NamesOf(e.right)
      [] e.node = "Call" -> NamesOf(e.func) \cup UNION {NamesOf(e.args[i]) : i \in 1..Len(e.args)}
      [] e.node = "Attribute" -> NamesOf(e.value)
      [] OTHER -> {}

\* the text does not parse, or mentions a name that is neither a declared
\* variable nor a combinator
Malformed(text) == PyParse(text) = NoTree

Unresolvable(text, declared) ==
    ~(NamesOf(PyParse(text)) \subseteq declared \cup Combinators \cup {"true", "false"})

Uncompilable(cs, declared) ==
    {i \in 1..Len(cs) : Malformed(cs[i].expression) \/ Unresolvable(cs[i].expression, declared)}

Compiling == sp \notin {"start", "create_constraints"} /\ Undeclarable(problem.variables) = {}

(* C16: when some constraint is malformed or mentions an unresolvable      *)
(* name, the call ends in create_constraints with a Failure that carries   *)
(* the expression text of the first such constraint; parse_constraint was  *)
(* called for the constraints up to that one and no further, and no list   *)
(* of compiled constraints is kept.                                        *)
C16_CompilationFailsFast ==
    Compiling /\ Uncompilable(problem.constraints, DOMAIN variables) # {} =>
        LET k == First(Uncompilable(problem.constraints, DOMAIN variables))
        IN  /\ SolveDone
            /\ solution = Failure("Error parsing constraint", problem.constraints[k].expression)
            /\ Count(sp_calls, "parse_constraint") = k
            /\ z3_constraints = <<>>

C16_Witness ==
    /\ SolveDone
    /\ Compiling
    /\ Len(problem.constraints) = 2
    /\ ~Malformed(problem.constraints[1].expression)
    /\ ~Unresolvable(problem.constraints[1].expression, DOMAIN variables)
    /\ Malformed(problem.constraints[2].expression)
    /\ solution.kind = "Failure"
    /\ solution.error[2] = problem.constraints[2].expression

(* C17: no compiled constraint is an object from outside the environment:  *)
(* an expression that reaches, through an attribute or otherwise, anything *)
(* but the declared variables and the combinators is not compiled.         *)
C17_ClosedEnvironment ==
    \A i \in 1..Len(z3_constraints) : z3_constraints[i].t # "object"

(* C18: a string variable is extracted as the string the model gives it,   *)
(* without the quotes of the value's canonical form.                       *)
C18_StringUnquoted ==
    SolveDone /\ solution.kind = "Success" =>
        \A name \in DOMAIN solution.value.values :
            variables[name].sort = "String" =>
                solution.value.values[name] = PyStr(solve_result[2].binds[name].val)

(* C19: a real variable is extracted as a float equal to the rational the  *)
(* model gives it, whether the canonical form is a ratio p/q (5/2 gives    *)
(* 2.5, -5/2 gives -2.5) or a numeral (2 gives 2.0); an integer variable   *)
(* is extracted as an int: the declared sort decides, not the form.        *)
C19_RealIsQuotient ==
    SolveDone /\ solution.kind = "Success" =>
        \A name \in DOMAIN solution.value.values :
            /\ variables[name].sort = "Real" =>
                  solution.value.values[name] = PyFloat(solve_result[2].binds[name].val)
            /\ variables[name].sort = "Int" => solution.value.values[name].t = "int"

C19_Witness ==
    /\ SolveDone
    /\ solution.kind = "Success"
    /\ "x" \in DOMAIN solution.value.values
    /\ Z3Str(solve_result[2].binds["x"]) = <<"5", "/", "2">>
    /\ solution.value.values["x"] = PyFloat(Rat(25, 10))

\* what analyze_relationships returns for a query when the checks are
\* decided on its own assertions
AloneAnalysis(rels, q) ==
    LET ents == create_entities(rels).value
        rls == create_relations(rels).value
        facts == add_relationship_assertions(rels, ents, rls)
        parsed == parse_query(q, ents, rls)
    IN  IF facts.result.kind = "Failure" THEN facts.result
        ELSE IF parsed.kind = "Failure" THEN parsed
        ELSE IF SolverCheck(facts.added) = "unsat" THEN Success(ContradictoryVerdict)
        ELSE IF SolverCheck(Append(facts.added, Not(parsed.value))) = "unsat"
             THEN Success(ConfirmedVerdict)
        ELSE IF SolverCheck(Append(facts.added, parsed.value)) = "unsat"
             THEN Success(ContradictedVerdict)
        ELSE Success(PossibleVerdict)

\* what solve_problem can return for a problem when the check is made on
\* its own constraints: the check may answer unknown, and a sat answer
\* comes with any of the models
AloneSolutions(p) ==
    LET declared == create_variables(p.variables).result
        compiled == create_constraints(p.constraints, declared.value).result
    IN  IF declared.kind = "Failure" THEN {declared}
        ELSE IF compiled.kind = "Failure" THEN {compiled}
        ELSE IF \E i \in 1..Len(compiled.value) : Asserted(compiled.value)[i].t = "raise"
             THEN {Failure("Error solving constraints", "Z3Exception")}
        ELSE {extract_solution("unknown", NoModel, declared.value)}
             \cup (IF Z3Check(compiled.value) = "unsat"
                   THEN {extract_solution("unsat", NoModel, declared.value)}
                   ELSE {extract_solution("sat",
                             ModelOf(declared.value, compiled.value, asg), declared.value) :
                         asg \in Z3Models(compiled.value)})

JStr(s) == [t |-> "str", s |-> s]

JBool(b) == [t |-> "bool", b |-> b]

\* str() of such a value
StrOf(v) == IF v.t = "str" THEN v.s
            ELSE IF v.b THEN <<"T", "r", "u", "e">> ELSE <<"F", "a", "l", "s", "e">>

TextContent(msg, arg) == [type |-> "text", text |-> <<msg, arg>>]

Rejected(text) == [kind |-> "rejected", text |-> text]

Accepted(model) == [kind |-> "accepted", model |-> model]

\* The loop of simple_constraint_solver over the variable dictionaries.
RECURSIVE problem_variables_from(_, _, _)
problem_variables_from(dicts, i, problem_variables) ==
    IF i > Len(dicts) THEN Accepted(problem_variables)
    ELSE LET var == dicts[i]
         IN  IF "name" \notin DOMAIN var \/ "type" \notin DOMAIN var
             THEN Rejected(TextContent("Each variable must have 'name' and 'type' fields", ""))
             ELSE IF var.type \notin VariableType
             THEN Rejected(TextContent("Invalid variable type", var.type))
             ELSE problem_variables_from(dicts, i + 1,
                      Append(problem_variables, Variable(var.name, var.type)))

\* A variant that takes an absent 'value' as false.
ValueOf_DefaultFalse(rel) == IF "value" \in DOMAIN rel THEN rel.value ELSE JBool(FALSE)

\* rel.get('value', True)
ValueOf(rel) == IF "value" \in DOMAIN rel THEN rel.value ELSE JBool(TRUE)

\* The loop of simple_relationship_analyzer over the relationship
\* dictionaries.
RECURSIVE query_relationships_from(_, _, _)
query_relationships_from(dicts, i, query_relationships) ==
    IF i > Len(dicts) THEN Accepted(query_relationships)
    ELSE LET rel == dicts[i]
         IN  IF "person1" \notin DOMAIN rel \/ "person2" \notin DOMAIN rel
                \/ "relation" \notin DOMAIN rel
             THEN Rejected(TextContent(
                      "Each relationship must have 'person1', 'person2', and 'relation' fields", ""))
             ELSE IF ValueOf(rel).t # "bool"
             THEN Rejected(TextContent("Relationship value must be a boolean", ""))
             ELSE query_relationships_from(dicts, i + 1,
                      Append(query_relationships,
                             Relationship(StrOf(rel.person1), StrOf(rel.person2),
                                          StrOf(rel.relation), ValueOf(rel).b)))

\* The calls explored.
VariableDicts ==
    {[name |-> "x", type |-> "real"], [name |-> "b", type |-> "boolean"],
     [name |-> "x"], [type |-> "real"], [name |-> "x", type |-> "float"]}

ConstraintTexts == {<<"x == 5/2">>, <<"b", "Not(b)">>, <<"x >">>, <<"x + 1">>}

RelationshipDicts ==
    {[person1 |-> JStr(alice), person2 |-> JStr(bob), relation |-> JStr(sibling),
      value |-> JBool(TRUE)],
     [person1 |-> JStr(alice), person2 |-> JStr(bob), relation |-> JStr(sibling),
      value |-> JBool(FALSE)],
     [person1 |-> JStr(alice), person2 |-> JStr(bob), relation |-> JStr(sibling)],
     [person1 |-> JBool(TRUE), person2 |-> JStr(bob), relation |-> JStr(sibling)],
     [person2 |-> JStr(bob), relation |-> JStr(sibling), value |-> JBool(TRUE)],
     [person1 |-> JStr(alice), relation |-> JStr(sibling)],
     [person1 |-> JStr(alice), person2 |-> JStr(bob), value |-> JBool(TRUE)],
     [person1 |-> JStr(alice), person2 |-> JStr(bob), relation |-> JStr(sibling),
      value |-> JStr(<<"y", "e", "s">>)]}

MaxDicts == 2

SimpleRequests ==
    {[tool |-> "simple_constraint_solver", variables |-> vs, constraints |-> cs] :
        vs \in UNION {[1..k -> VariableDicts] : k \in 0..MaxDicts}, cs \in ConstraintTexts}
    \cup
    {[tool |-> "simple_relationship_analyzer", relationships |-> rs, query |-> q] :
        rs \in UNION {[1..k -> RelationshipDicts] : k \in 0..MaxDicts},
        q \in {QueryText(sibling, bob, alice), QueryText(sibling, alice, bob),
               QueryText(sibling, alice, alice)}}

InitSimple ==
    /\ RelIdle
    /\ SolveIdle
    /\ request \in SimpleRequests
    /\ tp = "start"
    /\ response = Pending
    /\ invocations = <<>>

\* simple_constraint_solver up to its call of solve_problem
SimpleConstraintSolver ==
    /\ tp = "start"
    /\ request.tool = "simple_constraint_solver"
    /\ LET checked == problem_variables_from(request.variables, 1, <<>>)
       IN  IF checked.kind = "rejected"
           THEN /\ response' = checked.text
                /\ tp' = "done"
                /\ UNCHANGED <<invocations, solveVars>>
           ELSE /\ problem' = Problem(checked.model,
                                      [i \in 1..Len(request.constraints) |->
                                          Constraint(request.constraints[i])])
                /\ sp' = "start"
                /\ invocations' = Append(invocations, "solve_problem")
                /\ tp' = "called"
                /\ UNCHANGED <<response, variables, z3_constraints, solve_result,
                               solution, sp_calls>>
    /\ UNCHANGED <<relVars, request>>

\* simple_constraint_solver from the return of solve_problem
SimpleConstraintSolverReturns ==
    /\ tp = "called"
    /\ request.tool = "simple_constraint_solver"
    /\ sp = "done"
    /\ response' = IF solution.kind = "Success"
                   THEN TextContent("json", solution.value)
                   ELSE TextContent("Error solving problem", solution.error)
    /\ tp' = "done"
    /\ UNCHANGED <<relVars, solveVars, request, invocations>>

\* simple_relationship_analyzer up to its call of analyze_relationships
SimpleRelationshipAnalyzer ==
    /\ tp = "start"
    /\ request.tool = "simple_relationship_analyzer"
    /\ LET checked == query_relationships_from(request.relationships, 1, <<>>)
       IN  IF checked.kind = "rejected"
           THEN /\ response' = checked.text
                /\ tp' = "done"
                /\ UNCHANGED <<invocations, relationships, query, pc>>
           ELSE /\ relationships' = checked.model
                /\ query' = request.query
                /\ pc' = "start"
                /\ invocations' = Append(invocations, "analyze_relationships")
                /\ tp' = "called"
                /\ UNCHANGED response
    /\ UNCHANGED <<solveVars, request, entities, relations, assertions, scopes,
                   query_expr, base_result, neg_result, pos_result, outcome, calls>>

\* simple_relationship_analyzer from the return of analyze_relationships
SimpleRelationshipAnalyzerReturns ==
    /\ tp = "called"
    /\ request.tool = "simple_relationship_analyzer"
    /\ pc = "done"
    /\ response' = IF outcome.kind = "Success"
                   THEN TextContent("json", outcome.value)
                   ELSE TextContent("Error analyzing relationships", outcome.error)
    /\ tp' = "done"
    /\ UNCHANGED <<relVars, solveVars, request, invocations>>

NextSimple ==
    \/ SimpleConstraintSolver
    \/ SimpleConstraintSolverReturns
    \/ SimpleRelationshipAnalyzer
    \/ SimpleRelationshipAnalyzerReturns
    \/ Next
    \/ NextSolve

SpecSimple == InitSimple /\ [][NextSimple]_vars

\* a dictionary the tool must refuse
BadVariable(var) ==
    \/ "name" \notin DOMAIN var
    \/ "type" \notin DOMAIN var
    \/ var.type \notin {"integer", "real", "boolean", "string"}

BadRelationship(rel) ==
    \/ {"person1", "person2", "relation"} \ DOMAIN rel # {}
    \/ "value" \in DOMAIN rel /\ rel.value.t # "bool"

Refusable ==
    \/ /\ request.tool = "simple_constraint_solver"
       /\ \E i \in 1..Len(request.variables) : BadVariable(request.variables[i])
    \/ /\ request.tool = "simple_relationship_analyzer"
       /\ \E i \in 1..Len(request.relationships) : BadRelationship(request.relationships[i])

(* C21: once a simplified tool has checked its dictionaries: if some       *)
(* variable dictionary lacks 'name' or 'type' or has a type outside the    *)
(* four kinds, or some relationship dictionary lacks 'person1', 'person2'  *)
(* or 'relation' or has a non-boolean 'value', the tool has returned an    *)
(* error text and neither pipeline was called or started; otherwise the    *)
(* pipeline was called once, with value true for every relationship        *)
(* without a 'value'.                                                      *)
C21_SimpleToolsValidate ==
    tp \notin {"idle", "start"} =>
        IF Refusable
        THEN /\ tp = "done"
             /\ response.type = "text"
             /\ response.text[1] \in
                   {"Each variable must have 'name' and 'type' fields",
                    "Invalid variable type",
                    "Each relationship must have 'person1', 'person2', and 'relation' fields",
                    "Relationship value must be a boolean"}
             /\ invocations = <<>>
             /\ pc = "idle"
             /\ sp = "idle"
        ELSE /\ Len(invocations) = 1
             /\ request.tool = "simple_relationship_analyzer" =>
                   /\ Len(relationships) = Len(request.relationships)
                   /\ \A i \in 1..Len(relationships) :
                         relationships[i].value =
                            (IF "value" \in DOMAIN request.relationships[i]
                             THEN request.relationships[i].value.b ELSE TRUE)

C21_Witness ==
    /\ tp = "done"
    /\ request.tool = "simple_relationship_analyzer"
    /\ Len(request.relationships) = 2
    /\ ~BadRelationship(request.relationships[1])
    /\ "value" \notin DOMAIN request.relationships[1]
    /\ BadRelationship(request.relationships[2])
    /\ response.text[1] = "Relationship value must be a boolean"
    /\ invocations = <<>>

(***************************************************************************)
(* The probes of evaluate_query.                                           *)
(***************************************************************************)
\* the backend calls of one scoped probe
ProbeLog == <<"push", "add", "check", "pop">>

\* the backend calls made after the facts were asserted
AfterFacts == SubSeq(calls, Len(FactBase) + 1, Len(calls))

\* the call returned a verdict after a base check that did not answer unsat
Determined == Done /\ Succeeded /\ base_result \notin {"unsat", NoAnswer}

\* C22 as stated: two probes whatever the first one answered.
C22_Original ==
    Determined =>
        /\ AfterFacts = <<"check">> \o ProbeLog \o ProbeLog
        /\ \A i \in 1..Len(calls) : calls[i] # "model"

(* C22: a determination that returns a verdict after a base check that did *)
(* not answer unsat makes, after the base check, the scoped probe (push,   *)
(* add, check, pop) of the negated query, and then the scoped probe of the *)
(* query exactly when the first probe did not answer unsat: one probe for  *)
(* `confirmed', two otherwise.  The first probe checks F and not Q, the    *)
(* second F and Q, and no model is ever requested.                         *)
C22_ProbesUsed ==
    /\ Determined =>
          AfterFacts = <<"check">> \o ProbeLog
                          \o (IF neg_result = "unsat" THEN <<>> ELSE ProbeLog)
    /\ pc = "neg_check" => assertions = FactBase \o <<Not(query_expr)>>
    /\ pc = "pos_check" => assertions = FactBase \o <<query_expr>>
    /\ \A i \in 1..Len(calls) : calls[i] # "model"

C22_Witness ==
    /\ Determined
    /\ neg_result = "unsat"
    /\ outcome = Success(ConfirmedVerdict)
    /\ Count(calls, "push") = 1
    /\ Count(calls, "check") = 2

(* C23: each probe leaves the fact base as it was.  Before the push of a   *)
(* probe the asserted formulas are the fact base F with no scope open;     *)
(* after the pop of the probe of the negation and after the pop of the     *)
(* probe of the query they are F again (neither Not(Q) nor Q is left) and  *)
(* no scope is open; so the probe of the query checks exactly F and Q.     *)
C23_ProbeRestoresFacts ==
    /\ pc \in {"neg_push", "neg_decide", "pos_decide"} =>
          assertions = FactBase /\ scopes = <<>>
    /\ pc \in {"neg_decide", "pos_decide"} =>
          \A i \in 1..Len(assertions) :
             i > Len(FactBase) => assertions[i] \notin {query_expr, Not(query_expr)}
    /\ pc = "pos_check" =>
          /\ assertions = FactBase \o <<query_expr>>
          /\ scopes = <<Len(FactBase)>>

C23_Witness ==
    /\ pc = "pos_decide"
    /\ Len(FactBase) = MaxFacts
    /\ assertions = FactBase
    /\ scopes = <<>>
    /\ Count(calls, "pop") = 2

IsPrefix(s, t) == Len(s) <= Len(t) /\ s = SubSeq(t, 1, Len(s))

(* C24: the checks of one determination come one after the other in a      *)
(* fixed order: the backend calls after the facts are always a prefix of   *)
(* check; push, add, check, pop; push, add, check, pop, so the base check  *)
(* precedes the first push and the first pop precedes the second push; at  *)
(* most one scope is open at any time; and the probe of the query is made  *)
(* only after the probe of the negation has answered and was popped.       *)
C24_ChecksSequential ==
    /\ Len(calls) >= Len(FactBase) =>
          IsPrefix(AfterFacts, <<"check">> \o ProbeLog \o ProbeLog)
    /\ Len(scopes) <= 1
    /\ Count(calls, "push") - Count(calls, "pop") \in {0, 1}
    /\ Count(calls, "push") > 0 => base_result # NoAnswer
    /\ pc \in {"pos_add", "pos_check", "pos_pop", "pos_decide"} \/ pos_result # NoAnswer =>
          /\ neg_result # NoAnswer
          /\ Count(calls, "pop") >= 1

C24_Witness ==
    /\ pc = "pos_pop"
    /\ Len(scopes) = 1
    /\ AfterFacts = <<"check">> \o ProbeLog \o <<"push", "add", "check">>
    /\ base_result = "sat"
    /\ neg_result = "sat"
    /\ pos_result = "unsat"

(* C25: once declared, the keys of the entity table are exactly the names  *)
(* that occur as person1 or person2 of some fact and the keys of the       *)
(* relation table are exactly the relation names of the facts, each name   *)
(* bound to the one symbol of that name however often it occurs; so every  *)
(* fact finds its relation and both its entities declared and no call      *)
(* fails while the facts are asserted.                                     *)
C25_DeclaredIsReferenced ==
    LET facts == 1..Len(relationships)
        endpoints == UNION {{relationships[i].person1, relationships[i].person2} : i \in facts}
        named == {relationships[i].relation : i \in facts}
    IN  /\ pc \notin {"idle", "start"} =>
              /\ DOMAIN entities = endpoints
              /\ \A n \in endpoints : entities[n] = [name |-> n, z3_const |-> n]
        /\ pc \notin {"idle", "start", "create_relations"} =>
              /\ DOMAIN relations = named
              /\ \A n \in named : relations[n] = [name |-> n, z3_func |-> n]
        /\ pc = "add_assertions" =>
              \A i \in facts : FactDefect(relationships[i], entities, relations) = Success(None)
        /\ pc \notin {"idle", "start", "create_relations", "add_assertions"} =>
              /\ Len(assertions) >= Len(relationships)
              /\ Failed => outcome.error[1] \notin
                    {"Error adding relationship assertions", "Relation has no Z3 function",
                     "Entity has no Z3 constant", "Sibling relation has no Z3 function"}

C25_Witness ==
    /\ pc = "parse_query"
    /\ Len(relationships) = 2
    /\ relationships[1].person1 = relationships[2].person2
    /\ relationships[1].relation = relationships[2].relation
    /\ Cardinality(DOMAIN entities) = 3
    /\ Cardinality(DOMAIN relations) = 1
    /\ Len(assertions) >= 2

\* the facts have been asserted and the call goes on
FactsAsserted == pc \in {"parse_query", "base_check", "neg_push"}

(* C26: add_relationship_assertions asserts one formula per fact, in the   *)
(* order of the facts: the atom relation(person1, person2) when the fact   *)
(* is stated true and its negation when stated false, the arguments in the *)
(* order of the fact; after them the sibling axiom when a relation named   *)
(* sibling is declared, and nothing else.                                  *)
C26_OneFormulaPerFact ==
    FactsAsserted =>
        LET n == Len(relationships)
            axiom == IF \E i \in 1..n : relationships[i].relation = sibling THEN 1 ELSE 0
        IN  /\ Len(assertions) = n + axiom
            /\ Count(calls, "add") = n + axiom
            /\ \A i \in 1..n :
                  LET rel == relationships[i]
                      atom == Atom(rel.relation, rel.person1, rel.person2)
                  IN  assertions[i] = IF rel.value THEN atom ELSE Not(atom)
            /\ axiom = 1 => assertions[n + 1] = ForAllSymmetric(sibling)

C26_Witness ==
    /\ FactsAsserted
    /\ Len(relationships) = 2
    /\ relationships[1].value
    /\ ~relationships[2].value
    /\ relationships[1].person1 # relationships[1].person2
    /\ relationships[2].relation = sibling
    /\ Len(assertions) = 3

IsAxiom(f) == \E r \in RelationNamesOf(relationships) \cup {sibling} : f = ForAllSymmetric(r)

(* C27: the symmetry axiom is asserted once, after all the facts, exactly  *)
(* when some fact names the relation sibling, and for no other relation:   *)
(* when the only fact states R(a, b) true with R other than sibling and a  *)
(* other than b, the query R(b, a) gets the verdict `possible'.            *)
C27_SymmetryOnlyForSibling ==
    /\ FactsAsserted =>
          LET axioms == {i \in 1..Len(assertions) : IsAxiom(assertions[i])}
          IN  IF \E i \in 1..Len(relationships) : relationships[i].relation = sibling
              THEN /\ axioms = {Len(relationships) + 1}
                   /\ assertions[Len(relationships) + 1] = ForAllSymmetric(sibling)
              ELSE axioms = {}
    /\ /\ Done
       /\ Len(relationships) = 1
       /\ relationships[1].value
       /\ relationships[1].relation # sibling
       /\ relationships[1].person1 # relationships[1].person2
       /\ query = QueryText(relationships[1].relation, relationships[1].person2,
                            relationships[1].person1)
       => outcome = Success(PossibleVerdict)

C27_Witness ==
    /\ Done
    /\ relationships = <<Relationship(alice, bob, parent, TRUE)>>
    /\ query = QueryText(parent, bob, alice)
    /\ outcome = Success(PossibleVerdict)
    /\ \A i \in 1..Len(assertions) : ~IsAxiom(assertions[i])

(***************************************************************************)
(* The reference verdict: from the atoms stated true and stated false.     *)
(***************************************************************************)
Swapped(a) == Atom(a.rel, a.e2, a.e1)

SiblingClosure(atoms) == atoms \cup {Swapped(a) : a \in {b \in atoms : b.rel = sibling}}

Stated(rels, v) ==
    {Atom(rels[i].relation, rels[i].person1, rels[i].person2) :
        i \in {j \in 1..Len(rels) : rels[j].value = v}}

ReferenceVerdict(rels, Q) ==
    LET P == SiblingClosure(Stated(rels, TRUE))
        N == SiblingClosure(Stated(rels, FALSE))
    IN  IF P \cap N # {} THEN ContradictoryVerdict
        ELSE IF Q \in P THEN ConfirmedVerdict
        ELSE IF Q \in N THEN ContradictedVerdict
        ELSE PossibleVerdict

(* C28: with a backend that decides every check, a call whose query parses *)
(* to the atom Q returns the reference verdict: with P the atoms stated    *)
(* true and N the atoms stated false, each closed under swapping the       *)
(* arguments of sibling only, `contradictory' when P and N meet, else      *)
(* `confirmed' when Q is in P, else `contradicted' when Q is in N, else    *)
(* `possible'.  Entities of different names are neither equated nor kept   *)
(* apart: a fact about one pair of names decides nothing about another.    *)
C28_VerdictIsReference ==
    Done /\ query_expr # NoExpr =>
        outcome = Success(ReferenceVerdict(relationships, query_expr))

C28_Witness ==
    /\ Done
    /\ Len(relationships) = 2
    /\ relationships[1] = Relationship(smith, bob, sibling, TRUE)
    /\ relationships[2] = Relationship(alice, bob, sibling, FALSE)
    /\ query_expr = Atom(sibling, bob, alice)
    /\ outcome = Success(ContradictedVerdict)

\* the fact lists of at most MaxFacts facts that state the same set of facts
SameFacts(rels) ==
    {other \in UNION {[1..n -> Range(rels)] : n \in 0..MaxFacts} :
        Range(other) = Range(rels)}

(* C29: the result depends on the set of facts and the query only: every   *)
(* fact list with the same set of facts, in any order and with any         *)
(* repetition, gets the same verdict or the same Failure for the query.    *)
C29_OrderAndRepetitionFree ==
    Done => \A other \in SameFacts(relationships) :
                AloneAnalysis(other, query) = outcome

C29_Witness ==
    /\ Done
    /\ Len(relationships) = 2
    /\ relationships[1] # relationships[2]
    /\ relationships[1].value # relationships[2].value
    /\ Cardinality(SameFacts(relationships)) >= 2
    /\ Succeeded
    /\ AloneAnalysis(<<relationships[2], relationships[1]>>, query) = outcome

(* C30: the query is parsed when the facts have been asserted and before   *)
(* any check: a call whose query does not parse ends in a Failure with     *)
(* every fact asserted and no check made, also when the facts contradict   *)
(* each other; the verdict `contradictory' is returned only for a query    *)
(* that parsed.                                                            *)
C30_QueryParsedBeforeBaseCheck ==
    /\ pc = "parse_query" => assertions = FactBase /\ Count(calls, "check") = 0
    /\ Done /\ query_expr = NoExpr =>
          /\ Failed
          /\ assertions = FactBase
          /\ Count(calls, "check") = 0
    /\ Done /\ Succeeded => query_expr # NoExpr
    /\ Count(calls, "check") > 0 => query_expr # NoExpr

C30_Witness ==
    /\ Done
    /\ HasContradiction(relationships)
    /\ query_expr = NoExpr
    /\ Failed
    /\ Len(assertions) = 3
    /\ Count(calls, "check") = 0

====
